---------------------------- MODULE Spec2Model ----------------------------
(***************************************************************************)
(* Border-control simulation (sim-ees): the discrete-event engine of       *)
(* src/engine.py (flights, passengers, resource pools, capacity managers)  *)
(* and the iterative capacity controller of src/Simulation.py.             *)
(*                                                                         *)
(* Time.  The code keeps simulated time in float minutes.  The model keeps *)
(* every instant and duration as an integer number of ticks of 0.05 s, the *)
(* floor of every sampled duration (engine.py:139,144), so that the floor  *)
(* is one tick and a minute is 1200 ticks.                                 *)
(*                                                                         *)
(* Event loop.  simpy is a library of the program, not part of src/; its   *)
(* scheduling contract is modelled as the code relies on it: events are    *)
(* processed in the order (time, priority, creation number); a process     *)
(* start and the run's stop event are urgent, all others normal; a store   *)
(* or resource grants only the request at the head of its queue, when a    *)
(* request is made and when a put/release event is processed.  Events      *)
(* that nothing waits for (the end of a process, the release of an EU      *)
(* counter's own one-slot resource) change no state and are left out.      *)
(***************************************************************************)
EXTENDS Integers, Sequences, FiniteSets, TLC

VARIABLES
    inp,    \* the inputs of the session: flights, settings, t0, seed
    sim,    \* the engine run in progress: simpy environment + BorderControlModel
    ctl     \* the caller of run_simulation: its loop position and what it kept

vars == <<inp, sim, ctl>>

-----------------------------------------------------------------------------
(* Bounds of the model *)

\* passengers of a flight are 1..MaxPax
MaxPax == 3
\* seeds are 0..MaxSeed
MaxSeed == 3

-----------------------------------------------------------------------------
(* Units and program constants *)

TicksPerSec == 20
TicksPerMin == 60 * TicksPerSec
DayTicks == 24 * 60 * TicksPerMin

URGENT == 0
NORMAL == 1

GROUPS == <<"EASYPASS", "EU_MANUAL", "TCN_AT", "TCN_V">>

Max2(a, b) == IF a >= b THEN a ELSE b
Min2(a, b) == IF a <= b THEN a ELSE b

RECURSIVE SumSeq(_)
SumSeq(q) == IF q = <<>> THEN 0 ELSE Head(q) + SumSeq(Tail(q))

-----------------------------------------------------------------------------
(* The run-scoped random stream: random.Random(seed).  The generator is a  *)
(* state that every draw advances; a draw returns one of four equally      *)
(* likely quarters of [0, 1).                                              *)

RngSeed(seed) == 1 + ((5 * seed + 10) % 16)
RngNext(x) == (3 * x) % 17
RngU(x) == RngNext(x) % 4


-----------------------------------------------------------------------------
(* Capacity schedules.  A schedule is the dict {"HH:MM-HH:MM": capacity}   *)
(* in insertion order: a sequence of [key, cap], a key being the pair of   *)
(* its start and end strings, each "HH:MM" written as the number HHMM.     *)

\* the start of a key in minutes of the day: start_str.split(':') -> h * 60 + m
ParseStart(key) == (key[1] \div 100) * 60 + (key[1] % 100)

\* tuple order of Python on (start_min_of_day, cap)
PairLeq(a, b) == a[1] < b[1] \/ (a[1] = b[1] /\ a[2] <= b[2])

\* list.sort() / sorted() on such tuples
SortPairs(q) == SortSeq(q, LAMBDA a, b : PairLeq(a, b) /\ a # b)

\* step 1 of a capacity manager: (start_min_of_day, cap) of every entry, sorted
ScheduleParsed(sched) ==
    SortPairs([i \in 1..Len(sched) |-> <<ParseStart(sched[i].key), sched[i].cap>>])

\* a start capacity without the wrap over midnight: the first entry's when
\* t0 is before every start
InitialCapNoWrap(parsed, t0) ==
    LET started == {i \in 1..Len(parsed) : t0 \div TicksPerMin >= parsed[i][1]}
        last == CHOOSE i \in started : \A j \in started : j <= i
    IN  IF parsed = <<>> THEN 0
        ELSE IF started = {} THEN parsed[1][2]
        ELSE parsed[last][2]

\* step 2: the capacity at simulation start: that of the last entry, in
\* sorted order, whose start is not after t0's minute of the day; the last
\* entry's when t0 is before every start.  t0 is in ticks since midnight.
InitialCap(parsed, t0) ==
    LET started == {i \in 1..Len(parsed) : t0 \div TicksPerMin >= parsed[i][1]}
        last == CHOOSE i \in started : \A j \in started : j <= i
    IN  IF parsed = <<>> THEN 0
        ELSE IF started = {} THEN parsed[Len(parsed)][2]
        ELSE parsed[last][2]

\* step 3: every entry today and tomorrow, as (simulated instant, cap), those
\* after t0 only, in time order.  The instants are ticks since t0.
FutureEvents(parsed, t0) ==
    LET today == [i \in 1..Len(parsed) |->
                    <<parsed[i][1] * TicksPerMin - t0, parsed[i][2]>>]
        tomorrow == [i \in 1..Len(parsed) |->
                    <<DayTicks + parsed[i][1] * TicksPerMin - t0, parsed[i][2]>>]
    IN  SortPairs(SelectSeq(today \o tomorrow, LAMBDA e : e[1] > 0))

\* the capacity the schedule prescribes at simulated instant t (ticks since t0):
\* the start value, overridden by every entry whose instant has come
RECURSIVE CapAfter(_, _, _)
CapAfter(events, t, acc) ==
    IF events = <<>> \/ Head(events)[1] > t THEN acc
    ELSE CapAfter(Tail(events), t, Head(events)[2])

ScheduledCap(sched, t0, t) ==
    LET parsed == ScheduleParsed(sched)
    IN  CapAfter(FutureEvents(parsed, t0), t, InitialCap(parsed, t0))

-----------------------------------------------------------------------------
(* The simpy environment: the event queue *)

Proc(k, f, i) == [k |-> k, f |-> f, i |-> i]
MgrProc(st) == Proc(IF st = "TCN" THEN "mgr_tcn" ELSE "mgr_eu", 0, 0)
NoProc == Proc("none", 0, 0)

\* env.schedule(event, priority, delay)
Schedule(s, delay, prio, kind, proc, st) ==
    [s EXCEPT !.evq = @ \cup {[t |-> s.now + delay, prio |-> prio, id |-> s.eid,
                               kind |-> kind, proc |-> proc, st |-> st]},
              !.eid = @ + 1]

EvBefore(a, b) ==
    \/ a.t < b.t
    \/ a.t = b.t /\ a.prio < b.prio
    \/ a.t = b.t /\ a.prio = b.prio /\ a.id <= b.id

\* the event env.step() pops next
NextEvent(s) == CHOOSE e \in s.evq : \A o \in s.evq : EvBefore(e, o)

\* env.step(): pop the event and advance the clock to its time
Pop(s) ==
    LET e == NextEvent(s)
    IN  [s EXCEPT !.evq = @ \ {e}, !.now = e.t]

\* env.process(generator): the process starts with an urgent event at now
StartProcess(s, proc) == Schedule(s, 0, URGENT, "init", proc, "")

\* env.timeout(delay), yielded by proc
Timeout(s, delay, proc) == Schedule(s, delay, NORMAL, "timeout", proc, "")

-----------------------------------------------------------------------------
(* simpy.Store with unlimited capacity (self.tcn, self.eu): the idle       *)
(* server tokens and the queue of pending get requests.  The tokens of a   *)
(* store are interchangeable: the model keeps their number.                *)

\* Store._trigger_get: the request at the head of the queue is granted when
\* a token is idle; its event is scheduled and carries the token
TriggerGet(s, st) ==
    IF Len(s.store[st].getq) > 0 /\ s.store[st].items > 0
    THEN Schedule([s EXCEPT !.store[st].items = @ - 1,
                            !.store[st].getq = Tail(@)],
                  0, NORMAL, "get", Head(s.store[st].getq), st)
    ELSE s

\* store.get(), yielded by proc
StoreGet(s, st, proc) ==
    TriggerGet([s EXCEPT !.store[st].getq = Append(@, proc)], st)

\* store.put(item), yielded by proc: the token is idle at once, the put event
\* is scheduled; queued requests are looked at when that event is processed
StorePut(s, st, proc) ==
    Schedule([s EXCEPT !.store[st].items = @ + 1], 0, NORMAL, "put", proc, st)

-----------------------------------------------------------------------------
(* simpy.Resource (self.easypass, self.sss) and the _DisabledResource shim *)

\* Resource._trigger_put: the request at the head of the queue becomes a
\* user when a slot is free
TriggerPut(s, st) ==
    IF Len(s.res[st].queue) > 0 /\ Len(s.res[st].users) < s.res[st].capacity
    THEN Schedule([s EXCEPT !.res[st].users = Append(@, Head(s.res[st].queue)),
                            !.res[st].queue = Tail(@)],
                  0, NORMAL, "req", Head(s.res[st].queue), st)
    ELSE s

\* resource.request(), yielded by proc; the shim answers with timeout(0)
ResRequest(s, st, proc) ==
    IF s.res[st].disabled
    THEN Schedule(s, 0, NORMAL, "req", proc, st)
    ELSE TriggerPut([s EXCEPT !.res[st].queue = Append(@, proc)], st)

\* leaving the with-block: resource.release(request); the slot is free at
\* once, the next request is granted when the release event is processed
ResRelease(s, st, proc) ==
    IF s.res[st].disabled
    THEN s
    ELSE Schedule([s EXCEPT !.res[st].users =
                                SelectSeq(@, LAMBDA u : u # proc)],
                  0, NORMAL, "rel", NoProc, st)

-----------------------------------------------------------------------------
(* Sampling.  A draw takes the generator state x and uses the quarter      *)
(* RngU(x) of the unit interval it yields; the caller advances the state.  *)
(* Durations are ticks, speeds cm/s, distances cm, shares percent.         *)

\* rng.normalvariate(mean, sd): one of four quantiles around the mean
NormalVariate(mean, sd, u) == mean + (sd * (2 * u - 3)) \div 2

\* rng.lognormvariate(mu, sigma): one of four quantiles around exp(mu)
LogNormVariate(expmu, u) ==
    CASE u = 0 -> expmu \div 4
      [] u = 1 -> expmu \div 2
      [] u = 2 -> expmu * 2
      [] OTHER -> expmu * 4

FloorTicks == 1

\* _pos_normal(rng, mean, sd, floor)
PosNormal(x, mean, sd) == Max2(FloorTicks, NormalVariate(mean, sd, RngU(x)))

\* a _lognorm that does not clamp to cap
LogNormUncapped(x, d) ==
    IF d.sigma <= 0
    THEN Max2(FloorTicks, d.expmu)
    ELSE Max2(FloorTicks, LogNormVariate(d.expmu, RngU(x)))

\* _lognorm(rng, mu, sigma, cap, floor): no draw is made when sigma <= 0
LogNorm(x, d) ==
    IF d.sigma <= 0
    THEN Min2(d.cap, Max2(FloorTicks, d.expmu))
    ELSE Min2(d.cap, Max2(FloorTicks, LogNormVariate(d.expmu, RngU(x))))

\* whether _service_time_min draws from the generator for this request
ServiceDraws(cfg, station, ees_status) ==
    CASE station = "SSS" -> TRUE
      [] station = "EASYPASS" -> cfg.easypass.sigma > 0
      [] station = "EU" -> cfg.eu.sigma > 0
      [] station = "TCN" /\ ees_status = "EES_registered" -> cfg.tcn_v_reg.sigma > 0
      [] station = "TCN" /\ ees_status = "EES_unregistered" -> cfg.tcn_v_unreg.sigma > 0
      [] OTHER -> FALSE

\* whether _service_time_min(cfg, rng, station, group, ees_status) raises ValueError
ServiceRaises(station, group, ees_status) ==
    ~ \/ station \in {"SSS", "EASYPASS", "EU"}
      \/ /\ station = "TCN"
         /\ group \in {"TCN_V", "TCN_AT"}
         /\ ees_status \in {"EES_registered", "EES_unregistered"}

\* _service_time_min(cfg, rng, station, group, ees_status), with x the
\* generator state before the call
ServiceTime(cfg, x, station, group, ees_status) ==
    CASE station = "SSS" -> PosNormal(x, cfg.mean_sss, cfg.sd_sss)
      [] station = "EASYPASS" -> LogNorm(x, cfg.easypass)
      [] station = "EU" -> LogNorm(x, cfg.eu)
      [] station = "TCN" /\ ees_status = "EES_registered" -> LogNorm(x, cfg.tcn_v_reg)
      [] station = "TCN" /\ ees_status = "EES_unregistered" -> LogNorm(x, cfg.tcn_v_unreg)
      [] OTHER -> 0

\* _walk_time_min(cfg, rng, distance_m)
WalkTime(cfg, x, distance) ==
    LET speed == Max2(cfg.walk_speed_floor,
                      NormalVariate(cfg.walk_speed_mean, cfg.walk_speed_sd, RngU(x)))
    IN  (distance * TicksPerSec) \div speed

\* rng.randint(a, b) seconds, in ticks
RandInt(x, a, b) == (a + (RngU(x) * (b - a + 1)) \div 4) * TicksPerSec

\* a weighted draw that bisects to the left of equal cumulative weights
ChoiceGroupBisectLeft(cfg, x) ==
    LET w == <<cfg.share_easypass, cfg.share_eu_manual, cfg.share_tcn_at, cfg.share_tcn_v>>
        total == w[1] + w[2] + w[3] + w[4]
        cum == <<w[1], w[1] + w[2], w[1] + w[2] + w[3]>>
        below == {j \in 1..3 : 4 * cum[j] < RngU(x) * total}
    IN  GROUPS[1 + Cardinality(below)]

\* one weighted draw of rng.choices(GROUPS, weights): bisect of random() * total
\* in the cumulative weights of all groups but the last
ChoiceGroup(cfg, x) ==
    LET w == <<cfg.share_easypass, cfg.share_eu_manual, cfg.share_tcn_at, cfg.share_tcn_v>>
        total == w[1] + w[2] + w[3] + w[4]
        cum == <<w[1], w[1] + w[2], w[1] + w[2] + w[3]>>
        below == {j \in 1..3 : 4 * cum[j] <= RngU(x) * total}
    IN  GROUPS[1 + Cardinality(below)]

\* assign_groups(cfg, rng, n): n weighted draws in passenger order;
\* the groups and the generator state after them
RECURSIVE AssignGroups(_, _, _)
AssignGroups(cfg, x, n) ==
    IF n <= 0 THEN [groups |-> <<>>, rng |-> x]
    ELSE LET r == AssignGroups(cfg, RngNext(x), n - 1)
         IN  [groups |-> <<ChoiceGroup(cfg, x)>> \o r.groups, rng |-> r.rng]

\* model.rng.random() < model.cfg.ees_registered_share
EesStatus(cfg, x) ==
    IF RngU(x) * 100 < cfg.ees_registered_share * 4
    THEN "EES_registered" ELSE "EES_unregistered"

\* PPOS_DISTANCE_M.get(ppos, 0.0), in cm
PposDistance(ppos) ==
    CASE ppos = "02B" -> 7000
      [] ppos = "05" -> 11000
      [] ppos = "08" -> 29000
      [] OTHER -> 0

-----------------------------------------------------------------------------
(* BorderControlModel *)

StoreOf(station) == station \in {"TCN", "EU"}

\* snapshot(): one QueueSnapshot appended to queue_ts
Snapshot(s) ==
    [s EXCEPT !.queue_ts = Append(@,
        [t_min |-> s.now,
         q_sss |-> Len(s.res["SSS"].queue), in_sss |-> Len(s.res["SSS"].users),
         q_easypass |-> Len(s.res["EASYPASS"].queue),
         in_easypass |-> Len(s.res["EASYPASS"].users),
         q_eu |-> Len(s.store["EU"].getq), in_eu |-> s.in_use["EU"],
         q_tcn |-> Len(s.store["TCN"].getq), in_tcn |-> s.in_use["TCN"]])]

\* eu_manual_waiting()
EuManualWaiting(s) == s.eu_manual_wait_count > 0

\* the PassengerResult a passenger process creates, with the locals of its
\* do_station call: pc is the yield the process is suspended at
NewPassenger(f, ppos, pax_id, group, ees_status, transport_mode, now) ==
    [flight_key |-> f, ppos |-> ppos, pax_id |-> pax_id, group |-> group,
     transport_mode |-> transport_mode, ees_status |-> ees_status,
     arrival_min |-> now, exit_min |-> now, system_min |-> 0,
     wait_sss |-> 0, serv_sss |-> 0, wait_easypass |-> 0, serv_easypass |-> 0,
     wait_eu |-> 0, serv_eu |-> 0, wait_tcn |-> 0, serv_tcn |-> 0,
     used_sss |-> FALSE, used_easypass |-> FALSE, used_eu |-> FALSE, used_tcn |-> FALSE,
     pc |-> "start", station |-> "none", eu_priority |-> 0,
     t_arr |-> 0, t_start |-> 0, serv |-> 0, idle_at |-> {}]

\* the fields of a PassengerResult
ResultOf(p) ==
    [flight_key |-> p.flight_key, ppos |-> p.ppos, pax_id |-> p.pax_id,
     group |-> p.group, transport_mode |-> p.transport_mode,
     ees_status |-> p.ees_status,
     arrival_min |-> p.arrival_min, exit_min |-> p.exit_min, system_min |-> p.system_min,
     wait_sss |-> p.wait_sss, serv_sss |-> p.serv_sss,
     wait_easypass |-> p.wait_easypass, serv_easypass |-> p.serv_easypass,
     wait_eu |-> p.wait_eu, serv_eu |-> p.serv_eu,
     wait_tcn |-> p.wait_tcn, serv_tcn |-> p.serv_tcn,
     used_sss |-> p.used_sss, used_easypass |-> p.used_easypass,
     used_eu |-> p.used_eu, used_tcn |-> p.used_tcn]

\* do_station up to its first yield: the snapshot, t_arr and the request.
\* idle_at is a history field, not a field of the code: the stations that
\* had an idle server and an empty queue when the passenger asked for them
DoStation(s0, pid, station, eu_priority) ==
    LET proc == Proc("pax", pid[1], pid[2])
        idle == IF StoreOf(station)
                THEN s0.store[station].items > 0 /\ s0.store[station].getq = <<>>
                ELSE /\ ~s0.res[station].disabled
                     /\ Len(s0.res[station].users) < s0.res[station].capacity
                     /\ s0.res[station].queue = <<>>
        s1 == [Snapshot(s0) EXCEPT !.pax[pid].station = station,
                                   !.pax[pid].eu_priority = eu_priority,
                                   !.pax[pid].t_arr = s0.now,
                                   !.pax[pid].idle_at =
                                       IF idle THEN @ \cup {station} ELSE @]
    IN  CASE station \in {"SSS", "EASYPASS"} ->
                ResRequest([s1 EXCEPT !.pax[pid].pc = "request"], station, proc)
          [] station = "EU" ->
                StoreGet([s1 EXCEPT !.pax[pid].pc = "get",
                                    !.eu_manual_wait_count =
                                        IF eu_priority = 0 THEN @ + 1 ELSE @],
                         "EU", proc)
          [] OTHER ->
                StoreGet([s1 EXCEPT !.pax[pid].pc = "get"], "TCN", proc)

\* a passenger_process that reports the exit time as the time in the system
FinalizeFromStart(s, pid) ==
    LET p == [s.pax[pid] EXCEPT !.exit_min = s.now, !.system_min = s.now,
                                !.pc = "done"]
    IN  [s EXCEPT !.pax[pid] = p, !.results = Append(@, ResultOf(p))]

\* the end of passenger_process: exit_min, system_min, results.append(pr)
Finalize(s, pid) ==
    LET p == [s.pax[pid] EXCEPT !.exit_min = s.now,
                                !.system_min = s.now - s.pax[pid].arrival_min,
                                !.pc = "done"]
    IN  [s EXCEPT !.pax[pid] = p, !.results = Append(@, ResultOf(p))]

\* a passenger_process whose group TCN_V does not ask eu_manual_waiting()
RouteTcnVUnchecked(s, pid) ==
    DoStation(s, pid, "EU", 1)

\* a passenger_process whose group TCN_V always goes to the TCN counter
RouteTcnVToTcn(s, pid) ==
    DoStation(s, pid, "TCN", 0)

\* passenger_process, group TCN_V after the kiosk: the EU counter at low
\* priority unless an EU_MANUAL passenger is waiting now
RouteTcnV(s, pid) ==
    IF ~EuManualWaiting(s)
    THEN DoStation(s, pid, "EU", 1)
    ELSE DoStation(s, pid, "TCN", 0)

\* a passenger_process that sends every TCN_AT passenger to the Easypass gate
PassengerStartAtToEasypass(s0, pid) ==
    LET g == s0.pax[pid].group
        s == [s0 EXCEPT !.pax[pid].arrival_min = s0.now, !.pax[pid].exit_min = s0.now]
    IN  CASE g \in {"EASYPASS", "TCN_AT"} -> DoStation(s, pid, "EASYPASS", 0)
          [] g = "EU_MANUAL" -> DoStation(s, pid, "EU", 0)
          [] g = "TCN_V" /\ s.cfg.sss_enabled -> DoStation(s, pid, "SSS", 0)
          [] g = "TCN_V" -> RouteTcnV(s, pid)
          [] OTHER -> Finalize(s, pid)

\* passenger_process from its start: the PassengerResult with arrival = now,
\* then the first station of the group
PassengerStart(s0, pid) ==
    LET g == s0.pax[pid].group
        s == [s0 EXCEPT !.pax[pid].arrival_min = s0.now, !.pax[pid].exit_min = s0.now]
    IN  CASE g = "EASYPASS" -> DoStation(s, pid, "EASYPASS", 0)
          [] g = "EU_MANUAL" -> DoStation(s, pid, "EU", 0)
          [] g = "TCN_AT" /\ s.cfg.tcn_at_target = "EASYPASS" ->
                DoStation(s, pid, "EASYPASS", 0)
          [] g = "TCN_AT" /\ s.cfg.tcn_at_target = "EU" -> DoStation(s, pid, "EU", 0)
          [] g = "TCN_AT" /\ s.cfg.tcn_at_target = "TCN" -> DoStation(s, pid, "TCN", 0)
          [] g = "TCN_V" /\ s.cfg.sss_enabled -> DoStation(s, pid, "SSS", 0)
          [] g = "TCN_V" -> RouteTcnV(s, pid)
          [] OTHER -> Finalize(s, pid)

\* do_station: t_start, the service time drawn and the timeout yielded
BeginService(s, pid) ==
    LET p == s.pax[pid]
        proc == Proc("pax", pid[1], pid[2])
        serv == ServiceTime(s.cfg, s.rng, p.station, p.group, p.ees_status)
    IN  IF ServiceRaises(p.station, p.group, p.ees_status)
        THEN [s EXCEPT !.status = "ValueError"]
        ELSE Timeout([s EXCEPT !.pax[pid].t_start = s.now,
                               !.pax[pid].serv = serv,
                               !.pax[pid].pc = "service",
                               !.rng = IF ServiceDraws(s.cfg, p.station, p.ees_status)
                                       THEN RngNext(@) ELSE @],
                     serv, proc)

\* a do_station that subtracts the start of the service from the arrival
EndStationWaitReversed(s0, pid) ==
    LET p == s0.pax[pid]
        w == p.t_arr - p.t_start
        q == CASE p.station = "SSS" ->
                    [p EXCEPT !.used_sss = TRUE, !.wait_sss = @ + w, !.serv_sss = @ + p.serv]
               [] p.station = "EASYPASS" ->
                    [p EXCEPT !.used_easypass = TRUE, !.wait_easypass = @ + w,
                              !.serv_easypass = @ + p.serv]
               [] p.station = "EU" ->
                    [p EXCEPT !.used_eu = TRUE, !.wait_eu = @ + w, !.serv_eu = @ + p.serv]
               [] OTHER ->
                    [p EXCEPT !.used_tcn = TRUE, !.wait_tcn = @ + w, !.serv_tcn = @ + p.serv]
        s1 == Snapshot([s0 EXCEPT !.pax[pid] = q])
    IN  IF p.group = "TCN_V" /\ p.station = "SSS"
        THEN RouteTcnV(s1, pid)
        ELSE Finalize(s1, pid)

\* a do_station that takes the wait up to the end of the service
EndStationWaitToEnd(s0, pid) ==
    LET p == s0.pax[pid]
        w == s0.now - p.t_arr
        q == CASE p.station = "SSS" ->
                    [p EXCEPT !.used_sss = TRUE, !.wait_sss = @ + w, !.serv_sss = @ + p.serv]
               [] p.station = "EASYPASS" ->
                    [p EXCEPT !.used_easypass = TRUE, !.wait_easypass = @ + w,
                              !.serv_easypass = @ + p.serv]
               [] p.station = "EU" ->
                    [p EXCEPT !.used_eu = TRUE, !.wait_eu = @ + w, !.serv_eu = @ + p.serv]
               [] OTHER ->
                    [p EXCEPT !.used_tcn = TRUE, !.wait_tcn = @ + w, !.serv_tcn = @ + p.serv]
        s1 == Snapshot([s0 EXCEPT !.pax[pid] = q])
    IN  IF p.group = "TCN_V" /\ p.station = "SSS"
        THEN RouteTcnV(s1, pid)
        ELSE Finalize(s1, pid)

\* do_station after the request is served: the fields of the station are
\* written, the last snapshot is taken and passenger_process goes on
EndStation(s0, pid) ==
    LET p == s0.pax[pid]
        w == p.t_start - p.t_arr
        q == CASE p.station = "SSS" ->
                    [p EXCEPT !.used_sss = TRUE, !.wait_sss = @ + w, !.serv_sss = @ + p.serv]
               [] p.station = "EASYPASS" ->
                    [p EXCEPT !.used_easypass = TRUE, !.wait_easypass = @ + w,
                              !.serv_easypass = @ + p.serv]
               [] p.station = "EU" ->
                    [p EXCEPT !.used_eu = TRUE, !.wait_eu = @ + w, !.serv_eu = @ + p.serv]
               [] OTHER ->
                    [p EXCEPT !.used_tcn = TRUE, !.wait_tcn = @ + w, !.serv_tcn = @ + p.serv]
        s1 == Snapshot([s0 EXCEPT !.pax[pid] = q])
    IN  IF p.group = "TCN_V" /\ p.station = "SSS"
        THEN RouteTcnV(s1, pid)
        ELSE Finalize(s1, pid)

\* a do_station that keeps the server token instead of putting it back
AfterServiceNoPut(s, pid) ==
    LET p == s.pax[pid]
        proc == Proc("pax", pid[1], pid[2])
    IN  IF StoreOf(p.station)
        THEN EndStation([s EXCEPT !.in_use[p.station] = @ - 1], pid)
        ELSE EndStation(ResRelease(s, p.station, proc), pid)

\* do_station after the service (and changeover) timeouts: the with-block is
\* left, or the server token is put back into its store
AfterService(s, pid) ==
    LET p == s.pax[pid]
        proc == Proc("pax", pid[1], pid[2])
    IN  IF StoreOf(p.station)
        THEN StorePut([s EXCEPT !.pax[pid].pc = "put"], p.station, proc)
        ELSE EndStation(ResRelease(s, p.station, proc), pid)

\* the passenger process resumed by the event it waits for
PassengerResume(s, pid) ==
    LET p == s.pax[pid]
        proc == Proc("pax", pid[1], pid[2])
    IN  CASE p.pc = "start" -> PassengerStart(s, pid)
          [] p.pc = "get" /\ p.station = "TCN" ->
                BeginService(Snapshot([s EXCEPT !.in_use["TCN"] = @ + 1]), pid)
          [] p.pc = "get" /\ p.station = "EU" ->
                \* server_resource.request(priority): the counter is the passenger's alone
                Schedule(Snapshot([s EXCEPT !.in_use["EU"] = @ + 1,
                                            !.pax[pid].pc = "request"]),
                         0, NORMAL, "req", proc, "EU")
          [] p.pc = "request" ->
                BeginService([s EXCEPT !.eu_manual_wait_count =
                                  IF p.station = "EU" /\ p.eu_priority = 0
                                  THEN @ - 1 ELSE @], pid)
          [] p.pc = "service" /\ s.cfg.changeover > 0 ->
                Timeout([s EXCEPT !.pax[pid].pc = "changeover"], s.cfg.changeover, proc)
          [] p.pc \in {"service", "changeover"} -> AfterService(s, pid)
          [] p.pc = "put" ->
                EndStation([s EXCEPT !.in_use[p.station] = @ - 1], pid)
          [] OTHER -> s

-----------------------------------------------------------------------------
(* tcn_capacity_manager and eu_capacity_manager: the same process on the   *)
(* store st.  Its locals: the future events, the index k of the event it   *)
(* is at, new_cap, and rem, the puts or gets still to make for it.         *)

RECURSIVE MgrEvents(_, _)
RECURSIVE MgrApply(_, _)

\* step 4, the head of the loop: wait until the event's time if it is ahead
MgrEvents(s, st) ==
    LET m == s.mgr[st]
    IN  IF m.k > Len(m.events)
        THEN [s EXCEPT !.mgr[st].pc = "done"]
        ELSE IF m.events[m.k][1] - s.now > 0
             THEN Timeout([s EXCEPT !.mgr[st].pc = "delay"],
                          m.events[m.k][1] - s.now, MgrProc(st))
             ELSE MgrApply(s, st)

\* a manager that puts one token more than diff when it raises the capacity
MgrApplyOneMore(s, st) ==
    LET m == s.mgr[st]
        new_cap == m.events[m.k][2]
        diff == new_cap - s.current_capacity[st]
    IN  CASE diff > 0 ->
                StorePut([s EXCEPT !.mgr[st].pc = "inc_put", !.mgr[st].rem = diff,
                                   !.mgr[st].new_cap = new_cap], st, MgrProc(st))
          [] diff < 0 ->
                StoreGet([s EXCEPT !.mgr[st].pc = "dec_get", !.mgr[st].rem = (-diff) - 1,
                                   !.mgr[st].new_cap = new_cap], st, MgrProc(st))
          [] OTHER ->
                MgrEvents([s EXCEPT !.current_capacity[st] = new_cap,
                                    !.mgr[st].k = @ + 1], st)

\* a manager that lowers the capacity at once: idle tokens first, then the
\* tokens of passengers in service
MgrApplyPreempting(s, st) ==
    LET m == s.mgr[st]
        new_cap == m.events[m.k][2]
        diff == new_cap - s.current_capacity[st]
        idle == Min2(-diff, s.store[st].items)
    IN  CASE diff > 0 ->
                StorePut([s EXCEPT !.mgr[st].pc = "inc_put", !.mgr[st].rem = diff - 1,
                                   !.mgr[st].new_cap = new_cap], st, MgrProc(st))
          [] diff < 0 ->
                MgrEvents([s EXCEPT !.store[st].items = @ - idle,
                                    !.in_use[st] = Max2(0, @ - ((-diff) - idle)),
                                    !.current_capacity[st] = new_cap,
                                    !.mgr[st].k = @ + 1], st)
          [] OTHER ->
                MgrEvents([s EXCEPT !.current_capacity[st] = new_cap,
                                    !.mgr[st].k = @ + 1], st)

\* step 4, the body: diff = new_cap - current capacity; the first put or get
MgrApply(s, st) ==
    LET m == s.mgr[st]
        new_cap == m.events[m.k][2]
        diff == new_cap - s.current_capacity[st]
    IN  CASE diff > 0 ->
                StorePut([s EXCEPT !.mgr[st].pc = "inc_put", !.mgr[st].rem = diff - 1,
                                   !.mgr[st].new_cap = new_cap], st, MgrProc(st))
          [] diff < 0 ->
                StoreGet([s EXCEPT !.mgr[st].pc = "dec_get", !.mgr[st].rem = (-diff) - 1,
                                   !.mgr[st].new_cap = new_cap], st, MgrProc(st))
          [] OTHER ->
                MgrEvents([s EXCEPT !.current_capacity[st] = new_cap,
                                    !.mgr[st].k = @ + 1], st)

\* steps 1 to 3 and the first put of the start capacity
MgrStart(s, st, sched) ==
    LET parsed == ScheduleParsed(sched)
        initial_cap == InitialCap(parsed, s.t0)
        s1 == [s EXCEPT !.current_capacity[st] = initial_cap,
                        !.mgr[st].events = FutureEvents(parsed, s.t0),
                        !.mgr[st].k = 1]
    IN  IF initial_cap > 0
        THEN StorePut([s1 EXCEPT !.mgr[st].pc = "init_put",
                                 !.mgr[st].rem = initial_cap - 1], st, MgrProc(st))
        ELSE MgrEvents(s1, st)

\* a manager that does not note the capacity it has set
MgrAppliedCapacityKept(s, st) ==
    MgrEvents([s EXCEPT !.mgr[st].k = @ + 1], st)

\* the event is applied: the capacity is the event's, the next event follows
MgrApplied(s, st) ==
    MgrEvents([s EXCEPT !.current_capacity[st] = s.mgr[st].new_cap,
                        !.mgr[st].k = @ + 1], st)

\* the manager resumed by the event it waits for
MgrResume(s, st) ==
    LET m == s.mgr[st]
        sched == IF st = "TCN" THEN s.cfg.cap_tcn_schedule ELSE s.cfg.cap_eu_schedule
    IN  CASE m.pc = "start" -> MgrStart(s, st, sched)
          [] m.pc = "init_put" /\ m.rem > 0 ->
                StorePut([s EXCEPT !.mgr[st].rem = @ - 1], st, MgrProc(st))
          [] m.pc = "init_put" -> MgrEvents(s, st)
          [] m.pc = "delay" -> MgrApply(s, st)
          [] m.pc = "inc_put" /\ m.rem > 0 ->
                StorePut([s EXCEPT !.mgr[st].rem = @ - 1], st, MgrProc(st))
          [] m.pc = "dec_get" /\ m.rem > 0 ->
                StoreGet([s EXCEPT !.mgr[st].rem = @ - 1], st, MgrProc(st))
          [] m.pc \in {"inc_put", "dec_get"} -> MgrApplied(s, st)
          [] OTHER -> s

-----------------------------------------------------------------------------
(* schedule_flights: flight_proc and spawn_after *)

\* env.process(spawn_after(delay, ...)): the arguments are kept with the process
Spawn(s, f, i, delay, g, ees_status, transport_mode) ==
    StartProcess([s EXCEPT !.spawn = @ @@ (<<f, i>> :>
                      [delay |-> delay, group |-> g, ees_status |-> ees_status,
                       transport_mode |-> transport_mode, pc |-> "start"])],
                 Proc("spawn", f, i))

\* a registration status for the TCN_V passengers only
HasEesVisaOnly(g) == g = "TCN_V"

HasEes(g) == g \in {"TCN_V", "TCN_AT"}

\* the walking branch: passengers i..pax, cum the cumulative deboarding delay
RECURSIVE WalkLoop(_, _, _, _, _)
WalkLoop(s, f, groups, i, cum) ==
    IF i > Len(groups) THEN s
    ELSE LET g == groups[i]
             x1 == IF i > 1 THEN RngNext(s.rng) ELSE s.rng
             cum1 == IF i > 1
                     THEN cum + RandInt(s.rng, s.cfg.deboard_delay_min_s,
                                        s.cfg.deboard_delay_max_s)
                     ELSE cum
             walk_delay == WalkTime(s.cfg, x1, PposDistance(s.flights[f].ppos))
             x2 == RngNext(x1)
             ees_status == IF HasEes(g) THEN EesStatus(s.cfg, x2) ELSE "None"
             x3 == IF HasEes(g) THEN RngNext(x2) ELSE x2
         IN  WalkLoop(Spawn([s EXCEPT !.rng = x3], f, i, cum1 + walk_delay,
                            g, ees_status, "Walk"),
                      f, groups, i + 1, cum1)

\* the passengers i..last of one bus, all with the bus's arrival instant
RECURSIVE BusPaxLoop(_, _, _, _, _, _)
BusPaxLoop(s, f, groups, i, last, arrival) ==
    IF i > last THEN s
    ELSE LET g == groups[i]
             ees_status == IF HasEes(g) THEN EesStatus(s.cfg, s.rng) ELSE "None"
             x1 == IF HasEes(g) THEN RngNext(s.rng) ELSE s.rng
         IN  BusPaxLoop(Spawn([s EXCEPT !.rng = x1], f, i, arrival, g, ees_status, "Bus"),
                        f, groups, i + 1, last, arrival)

\* a bus branch that puts every passenger of the flight into one bus
BusLoopOneBus(s, f, groups, bus_idx, last_dep) ==
    BusPaxLoop(s, f, groups, 1, Len(groups),
               last_dep + s.cfg.bus_fill_time + s.cfg.bus_travel_time)

\* a bus branch in which every bus takes the fill time of a full bus
BusLoopFullFill(s, f, groups, bus_idx, last_dep) ==
    LET pax == Len(groups)
        cap == s.cfg.bus_capacity
        num_buses == (pax + cap - 1) \div cap
        arrival(b) == last_dep + (b - bus_idx + 1) * s.cfg.bus_fill_time
                      + s.cfg.bus_travel_time
        RECURSIVE from(_, _)
        from(t, b) ==
            IF b >= num_buses THEN t
            ELSE from(BusPaxLoop(t, f, groups, b * cap + 1, Min2((b + 1) * cap, pax),
                                 arrival(b)), b + 1)
    IN  from(s, bus_idx)

\* the bus branch: buses bus_idx..num_buses-1, last_dep the departure of
\* the bus before
RECURSIVE BusLoop(_, _, _, _, _)
BusLoop(s, f, groups, bus_idx, last_dep) ==
    LET pax == Len(groups)
        cap == s.cfg.bus_capacity
        num_buses == (pax + cap - 1) \div cap
        start_pax_idx == bus_idx * cap
        end_pax_idx == Min2((bus_idx + 1) * cap, pax)
        fill == ((end_pax_idx - start_pax_idx) * s.cfg.bus_fill_time) \div cap
        departure == last_dep + fill
    IN  IF bus_idx >= num_buses THEN s
        ELSE BusLoop(BusPaxLoop(s, f, groups, start_pax_idx + 1, end_pax_idx,
                                departure + s.cfg.bus_travel_time),
                     f, groups, bus_idx + 1, departure)

\* flight_proc after its timeout: the groups are drawn, then every passenger
\* is scheduled
FlightArrive(s, f) ==
    LET fl == s.flights[f]
        total == s.cfg.share_easypass + s.cfg.share_eu_manual
                 + s.cfg.share_tcn_at + s.cfg.share_tcn_v
        a == AssignGroups(s.cfg, s.rng, fl.spax)
        s1 == [s EXCEPT !.rng = a.rng, !.fl[f] = "done"]
    IN  IF total <= 0
        THEN [s EXCEPT !.status = "ValueError"]
        ELSE IF PposDistance(fl.ppos) > 0
             THEN WalkLoop(s1, f, a.groups, 1, s.cfg.deboard_offset)
             ELSE BusLoop(s1, f, a.groups, 0, s.cfg.deboard_offset)

\* flight_proc resumed
FlightResume(s, f) ==
    IF s.fl[f] = "start"
    THEN Timeout([s EXCEPT !.fl[f] = "wait"],
                 Max2(0, s.flights[f].t_arr - s.now), Proc("flight", f, 0))
    ELSE FlightArrive(s, f)

\* spawn_after resumed: its timeout, then the passenger process is started
SpawnResume(s, pid) ==
    LET a == s.spawn[pid]
    IN  IF a.pc = "start"
        THEN Timeout([s EXCEPT !.spawn[pid].pc = "wait"], a.delay,
                     Proc("spawn", pid[1], pid[2]))
        ELSE StartProcess(
                [s EXCEPT !.spawn[pid].pc = "done",
                          !.pax = @ @@ (pid :> NewPassenger(pid[1], s.flights[pid[1]].ppos,
                              pid[2], a.group, a.ees_status, a.transport_mode, 0))],
                Proc("pax", pid[1], pid[2]))

-----------------------------------------------------------------------------
(* run_simulation *)

RECURSIVE StartFlights(_, _)
StartFlights(s, f) ==
    IF f > Len(s.flights) THEN s
    ELSE StartFlights(StartProcess(s, Proc("flight", f, 0)), f + 1)

RECURSIVE MaxArr(_)
MaxArr(flights) ==
    IF flights = <<>> THEN 0 ELSE Max2(Head(flights).t_arr, MaxArr(Tail(flights)))

\* until_min when the caller gives none
DefaultUntil(flights, cfg) ==
    MaxArr(flights) + cfg.deboard_offset + 60 * TicksPerMin + 240 * TicksPerMin

\* BorderControlModel.__init__ on a new environment with a new Random(seed)
NewModel(flights, cfg, t0, seed) ==
    LET s0 == [status |-> IF cfg.cap_easypass <= 0 THEN "ValueError" ELSE "running",
               now |-> 0, eid |-> 0, evq |-> {},
               cfg |-> cfg, t0 |-> t0, flights |-> flights,
               rng |-> RngSeed(seed),
               res |-> [st \in {"SSS", "EASYPASS"} |->
                          IF st = "SSS"
                          THEN [disabled |-> ~(cfg.sss_enabled /\ cfg.cap_sss > 0),
                                capacity |-> IF cfg.sss_enabled /\ cfg.cap_sss > 0
                                             THEN cfg.cap_sss ELSE 0,
                                users |-> <<>>, queue |-> <<>>]
                          ELSE [disabled |-> FALSE, capacity |-> cfg.cap_easypass,
                                users |-> <<>>, queue |-> <<>>]],
               store |-> [st \in {"TCN", "EU"} |-> [items |-> 0, getq |-> <<>>]],
               in_use |-> [st \in {"TCN", "EU"} |-> 0],
               current_capacity |-> [st \in {"TCN", "EU"} |-> 0],
               eu_manual_wait_count |-> 0,
               results |-> <<>>, queue_ts |-> <<>>,
               mgr |-> [st \in {"TCN", "EU"} |->
                          [pc |-> "start", events |-> <<>>, k |-> 1, rem |-> 0,
                           new_cap |-> 0]],
               fl |-> [f \in 1..Len(flights) |-> "start"],
               spawn |-> <<>>, pax |-> <<>>]
    IN  StartProcess(StartProcess(s0, MgrProc("TCN")), MgrProc("EU"))

\* run_simulation up to env.run(until=until_min): the model, the flight
\* processes and the stop event of the run
RunSimulation(flights, cfg, t0, seed) ==
    Schedule(StartFlights(NewModel(flights, cfg, t0, seed), 1),
             DefaultUntil(flights, cfg), URGENT, "until", NoProc, "")

-----------------------------------------------------------------------------
(* env.run: one step of the event loop per action, by the kind of process  *)
(* the event resumes                                                       *)

Running == sim.status = "running" /\ sim.evq # {}

\* a capacity manager is resumed; a put event first lets the store grant
\* the request at the head of its queue
CapacityManagerStep ==
    /\ Running
    /\ NextEvent(sim).proc.k \in {"mgr_tcn", "mgr_eu"}
    /\ LET e == NextEvent(sim)
           st == IF e.proc.k = "mgr_tcn" THEN "TCN" ELSE "EU"
           s1 == IF e.kind = "put" THEN TriggerGet(Pop(sim), st) ELSE Pop(sim)
       IN  sim' = MgrResume(s1, st)
    /\ UNCHANGED <<inp, ctl>>

FlightProcStep ==
    /\ Running
    /\ NextEvent(sim).proc.k = "flight"
    /\ sim' = FlightResume(Pop(sim), NextEvent(sim).proc.f)
    /\ UNCHANGED <<inp, ctl>>

SpawnAfterStep ==
    /\ Running
    /\ NextEvent(sim).proc.k = "spawn"
    /\ LET e == NextEvent(sim)
       IN  sim' = SpawnResume(Pop(sim), <<e.proc.f, e.proc.i>>)
    /\ UNCHANGED <<inp, ctl>>

\* a passenger process is resumed; a put event first lets the store grant
\* the request at the head of its queue
PassengerStep ==
    /\ Running
    /\ NextEvent(sim).proc.k = "pax"
    /\ LET e == NextEvent(sim)
           s1 == IF e.kind = "put" THEN TriggerGet(Pop(sim), e.st) ELSE Pop(sim)
       IN  sim' = PassengerResume(s1, <<e.proc.f, e.proc.i>>)
    /\ UNCHANGED <<inp, ctl>>

\* the release event of a resource: the next request in its queue is granted
ReleaseStep ==
    /\ Running
    /\ NextEvent(sim).kind = "rel"
    /\ sim' = TriggerPut(Pop(sim), NextEvent(sim).st)
    /\ UNCHANGED <<inp, ctl>>

\* the stop event: env.run returns at until_min
UntilStep ==
    /\ Running
    /\ NextEvent(sim).kind = "until"
    /\ sim' = [Pop(sim) EXCEPT !.status = "stopped"]
    /\ UNCHANGED <<inp, ctl>>

EngineStep ==
    \/ CapacityManagerStep
    \/ FlightProcStep
    \/ SpawnAfterStep
    \/ PassengerStep
    \/ ReleaseStep
    \/ UntilStep

-----------------------------------------------------------------------------
(* Inputs *)

\* SimConfig with the defaults of engine.py and passenger_data.py
\* (34 s = 680 ticks, exp(3.92) s = 1008 ticks, 180 s = 3600 ticks, ...)
DefaultCfg ==
    [cap_tcn_schedule |-> <<>>, cap_eu_schedule |-> <<>>,
     tcn_v_reg |-> [expmu |-> 1008, sigma |-> 1, cap |-> 3600],
     tcn_v_unreg |-> [expmu |-> 1008, sigma |-> 1, cap |-> 3600],
     easypass |-> [expmu |-> 316, sigma |-> 1, cap |-> 1800],
     eu |-> [expmu |-> 859, sigma |-> 1, cap |-> 3600],
     cap_sss |-> 6, cap_easypass |-> 8,
     ees_registered_share |-> 75, sss_enabled |-> TRUE,
     mean_sss |-> 680, sd_sss |-> 408,
     deboard_offset |-> 5 * TicksPerMin,
     deboard_delay_min_s |-> 2, deboard_delay_max_s |-> 8,
     changeover |-> 0,
     walk_speed_mean |-> 125, walk_speed_sd |-> 25, walk_speed_floor |-> 50,
     bus_capacity |-> 80, bus_fill_time |-> 7 * TicksPerMin,
     bus_travel_time |-> 3000,
     share_easypass |-> 35, share_eu_manual |-> 35, share_tcn_at |-> 10,
     share_tcn_v |-> 20,
     tcn_at_target |-> "EASYPASS"]

\* a flight record of flights_to_sim_input
Flight(key, ppos, spax, t_arr, terminal) ==
    [flight_key |-> key, ppos |-> ppos, spax |-> spax, t_arr |-> t_arr,
     terminal |-> terminal]

\* the flight lists of the engine runs: one walking flight, one bus flight
\* (stand "R1" has no distance) at t0 or two minutes later, two walking
\* flights seven minutes apart
FlightPlans ==
    {<<Flight(1, "02B", n, 0, "T1")>> : n \in 1..MaxPax}
    \cup {<<Flight(1, "R1", MaxPax, t, "T2")>> : t \in {0, 2 * TicksPerMin}}
    \cup {<<Flight(1, "02B", MaxPax, 0, "T1"), Flight(2, "05", 1, 7 * TicksPerMin, "T1")>>}

\* schedules of the engine runs: constant, a decrease and an increase eight
\* minutes after 06:00
Sched(c1, c2) ==
    <<[key |-> <<600, 608>>, cap |-> c1], [key |-> <<608, 2400>>, cap |-> c2]>>

\* a decrease at 06:20 followed by an increase at 06:30
StallSched ==
    <<[key |-> <<600, 620>>, cap |-> 2], [key |-> <<620, 630>>, cap |-> 1],
      [key |-> <<630, 2400>>, cap |-> 3]>>

SchedulePairs ==
    {<<Sched(1, 1), Sched(1, 1)>>, <<Sched(2, 1), Sched(1, 1)>>,
     <<Sched(1, 2), Sched(1, 1)>>, <<Sched(1, 1), Sched(2, 1)>>,
     <<Sched(1, 1), Sched(1, 2)>>}

\* passenger mixes (percent) with the TCN_AT target: visa passengers only,
\* EU and visa passengers, visa-exempt passengers sent to the EU counters
\* and visa passengers, Easypass and EU passengers, all four groups with
\* each target
Mixes ==
    {<<0, 0, 0, 100, "EASYPASS">>, <<0, 50, 0, 50, "EASYPASS">>,
     <<0, 0, 50, 50, "EU">>, <<50, 50, 0, 0, "EASYPASS">>}
    \cup {<<25, 25, 25, 25, t>> : t \in {"EASYPASS", "EU", "TCN"}}

\* services of 200 minutes each, without spread (sigma = 0)
SlowTcn == [expmu |-> 200 * TicksPerMin, sigma |-> 0, cap |-> 400 * TicksPerMin]

EngineCfgs ==
    {[DefaultCfg EXCEPT !.cap_tcn_schedule = sp[1], !.cap_eu_schedule = sp[2],
                        !.share_easypass = m[1], !.share_eu_manual = m[2],
                        !.share_tcn_at = m[3], !.share_tcn_v = m[4],
                        !.tcn_at_target = m[5],
                        !.sss_enabled = sss, !.cap_sss = IF sss THEN 1 ELSE 0,
                        !.cap_easypass = 1, !.bus_capacity = 2,
                        !.tcn_v_reg = IF slow THEN SlowTcn ELSE @,
                        !.tcn_v_unreg = IF slow THEN SlowTcn ELSE @] :
        sp \in SchedulePairs, m \in Mixes, sss \in BOOLEAN, slow \in BOOLEAN}
    \cup {[DefaultCfg EXCEPT !.cap_tcn_schedule = Sched(1, 1),
                             !.cap_eu_schedule = StallSched,
                             !.share_easypass = 0, !.share_eu_manual = 100,
                             !.share_tcn_at = 0, !.share_tcn_v = 0,
                             !.cap_easypass = 1, !.bus_capacity = 2,
                             !.eu = SlowTcn]}
    \cup {[DefaultCfg EXCEPT !.cap_tcn_schedule = Sched(1, 1),
                             !.cap_eu_schedule = Sched(3, 1),
                             !.share_easypass = 0, !.share_eu_manual = 100,
                             !.share_tcn_at = 0, !.share_tcn_v = 0,
                             !.cap_easypass = 1, !.bus_capacity = 2,
                             !.eu = SlowTcn]}
    \cup {[DefaultCfg EXCEPT !.cap_tcn_schedule = Sched(1, 1),
                             !.cap_eu_schedule = Sched(1, 1),
                             !.share_easypass = 25, !.share_eu_manual = 25,
                             !.share_tcn_at = 25, !.share_tcn_v = 25,
                             !.tcn_at_target = "TCN",
                             !.sss_enabled = TRUE, !.cap_sss = 1,
                             !.cap_easypass = 1, !.bus_capacity = 2,
                             !.changeover = 10 * TicksPerSec]}

\* 06:00 in ticks since midnight
SixOClock == 6 * 60 * TicksPerMin

-----------------------------------------------------------------------------
(* Specification Spec: run_simulation called on a flight list, and called  *)
(* once more as the iteration loop of Simulation.py does: with the same    *)
(* flights, t0 and seed, and either the same schedules or every scheduled  *)
(* capacity raised by one.                                                 *)

RaiseAll(sched) == [i \in 1..Len(sched) |-> [sched[i] EXCEPT !.cap = @ + 1]]

\* a later run that goes on with the generator the run before has left
IterationRunSharedRng(flights, cfg, t0, run_seed) ==
    [RunSimulation(flights, cfg, t0, run_seed) EXCEPT !.rng = sim.rng]

\* the run of a later iteration: run_simulation(flights, cfg, t0, seed=run_seed)
IterationRun(flights, cfg, t0, run_seed) ==
    RunSimulation(flights, cfg, t0, run_seed)

Init ==
    /\ inp \in [flights : FlightPlans, cfg : EngineCfgs, t0 : {SixOClock},
                seed : 0..MaxSeed]
    /\ sim = RunSimulation(inp.flights, inp.cfg, inp.t0, inp.seed)
    /\ ctl = [phase |-> "first", raised |-> FALSE, first |-> <<>>]

\* the caller keeps the model of the first run and runs again
RunAgain ==
    /\ ctl.phase = "first"
    /\ sim.status # "running"
    /\ \E raised \in BOOLEAN :
        /\ ctl' = [phase |-> "second", raised |-> raised,
                   first |-> [results |-> sim.results, status |-> sim.status,
                              pax |-> sim.pax]]
        /\ sim' = IterationRun(inp.flights,
                     IF raised
                     THEN [inp.cfg EXCEPT !.cap_tcn_schedule = RaiseAll(@),
                                          !.cap_eu_schedule = RaiseAll(@)]
                     ELSE inp.cfg,
                     inp.t0, inp.seed)
    /\ UNCHANGED inp

Next == EngineStep \/ RunAgain

Spec == Init /\ [][Next]_vars

-----------------------------------------------------------------------------
(* Properties of the engine, checked under Spec *)

\* the passengers schedule_flights has to spawn: one per unit of spax
Spawned(flights) == SumSeq([f \in 1..Len(flights) |-> flights[f].spax])

Finished == sim.status = "stopped"

\* C1: passenger conservation: when a run ends, the result list holds one
\* PassengerResult for each passenger schedule_flights was to spawn
C1_Conservation ==
    Finished => Len(sim.results) = Spawned(sim.flights)

\* the largest capacity the schedule has prescribed from the start of the
\* run up to instant t
RECURSIVE MaxCapUpTo(_, _, _)
MaxCapUpTo(events, t, acc) ==
    IF events = <<>> \/ Head(events)[1] > t THEN acc
    ELSE MaxCapUpTo(Tail(events), t, Max2(acc, Head(events)[2]))

PrescribedMax(sched, t0, t) ==
    LET parsed == ScheduleParsed(sched)
    IN  MaxCapUpTo(FutureEvents(parsed, t0), t, InitialCap(parsed, t0))

StaticWithin(q) ==
    /\ q.in_easypass <= sim.cfg.cap_easypass
    /\ q.in_sss <= (IF sim.cfg.sss_enabled THEN sim.cfg.cap_sss ELSE 0)

\* C2 as stated: in every snapshot each station's in-service count is at
\* most the capacity in effect at the snapshot's timestamp: for TCN and EU
\* the capacity the schedule prescribes for that time
C2_CapacityAsScheduled ==
    \A i \in 1..Len(sim.queue_ts) :
        LET q == sim.queue_ts[i]
        IN  /\ q.in_tcn <= ScheduledCap(sim.cfg.cap_tcn_schedule, sim.t0, q.t_min)
            /\ q.in_eu <= ScheduledCap(sim.cfg.cap_eu_schedule, sim.t0, q.t_min)
            /\ StaticWithin(q)

\* C2 amended: in every snapshot the in-service count of TCN and of EU is at
\* most the largest capacity the schedule has prescribed from the start of
\* the run up to the snapshot's timestamp (a decrease takes effect only as
\* tokens fall idle), and that of Easypass and SSS at most the static capacity
C2_CapacityWithLag ==
    \A i \in 1..Len(sim.queue_ts) :
        LET q == sim.queue_ts[i]
        IN  /\ q.in_tcn <= PrescribedMax(sim.cfg.cap_tcn_schedule, sim.t0, q.t_min)
            /\ q.in_eu <= PrescribedMax(sim.cfg.cap_eu_schedule, sim.t0, q.t_min)
            /\ StaticWithin(q)

\* a snapshot taken after a decrease was due, with more passengers in
\* service than the schedule prescribes for its timestamp
C2_Witness ==
    \E i \in 1..Len(sim.queue_ts) :
        LET q == sim.queue_ts[i]
        IN  \/ /\ q.in_tcn > ScheduledCap(sim.cfg.cap_tcn_schedule, sim.t0, q.t_min)
               /\ q.in_tcn = PrescribedMax(sim.cfg.cap_tcn_schedule, sim.t0, q.t_min)
            \/ /\ q.in_eu > ScheduledCap(sim.cfg.cap_eu_schedule, sim.t0, q.t_min)
               /\ q.in_eu = PrescribedMax(sim.cfg.cap_eu_schedule, sim.t0, q.t_min)

SecondRunOver(raised) ==
    ctl.phase = "second" /\ ctl.raised = raised /\ sim.status # "running"

WaitsForEu(p) == p.station = "EU" /\ p.pc = "get"

StartedEu(p) == p.station = "EU" /\ p.pc \in {"service", "changeover", "put", "done"}

IndexIn(q, x) == CHOOSE i \in 1..Len(q) : q[i] = x

\* C4: priority invariant: no TCN_V passenger who asked for an EU counter
\* after an EU_MANUAL passenger began waiting has started EU service while
\* that passenger still waits, and none stands behind a waiting EU_MANUAL
\* passenger in the queue of the EU store
C4_Priority ==
    \A a, b \in DOMAIN sim.pax :
        LET pa == sim.pax[a]
            pb == sim.pax[b]
            getq == sim.store["EU"].getq
            A == Proc("pax", a[1], a[2])
            B == Proc("pax", b[1], b[2])
            InQ(x) == \E i \in 1..Len(getq) : getq[i] = x
        IN  (pa.group = "EU_MANUAL" /\ WaitsForEu(pa) /\ pb.group = "TCN_V") =>
                /\ StartedEu(pb) => pb.t_arr <= pa.t_arr
                /\ (InQ(A) /\ InQ(B)) => IndexIn(getq, B) < IndexIn(getq, A)

\* an EU_MANUAL passenger waits for an EU counter, and a TCN_V passenger who
\* came to the counters after it began waiting has been sent to TCN
C4_Witness ==
    \E a, b \in DOMAIN sim.pax :
        /\ sim.pax[a].group = "EU_MANUAL" /\ WaitsForEu(sim.pax[a])
        /\ \E i \in 1..Len(sim.store["EU"].getq) :
              sim.store["EU"].getq[i] = Proc("pax", a[1], a[2])
        /\ sim.pax[b].group = "TCN_V" /\ sim.pax[b].station = "TCN"
        /\ sim.pax[b].pc \in {"get", "service"}
        /\ sim.pax[b].t_arr >= sim.pax[a].t_arr

Arrived(p) == p.pc # "start"

\* C9: with the same flights and seed, every passenger has the same group,
\* registration status, transport mode and arrival instant in a run with
\* other capacity schedules
C9_SamePassengers ==
    (ctl.phase = "second" /\ ctl.raised) =>
        \A pid \in DOMAIN sim.pax \cap DOMAIN ctl.first.pax :
            LET p == sim.pax[pid]
                q == ctl.first.pax[pid]
            IN  (Arrived(p) /\ Arrived(q)) =>
                    /\ p.group = q.group
                    /\ p.ees_status = q.ees_status
                    /\ p.transport_mode = q.transport_mode
                    /\ p.arrival_min = q.arrival_min

\* a passenger holds a server token of store st
Holds(s, pid, st) ==
    /\ pid \in DOMAIN s.pax
    /\ s.pax[pid].station = st
    /\ s.pax[pid].pc \in {"request", "service", "changeover"}

\* the get events granted to the capacity manager of st
MgrGrants(s, st) == {e \in s.evq : e.kind = "get" /\ e.proc = MgrProc(st)}

\* C10: a capacity decrease never preempts: a passenger holding a TCN or EU
\* token keeps it until its service time plus changeover has elapsed, the
\* in-service count falls only when a passenger has put its token back, and
\* a get of the capacity manager is granted only from idle tokens
C10_NoPreemption ==
    [][(sim.status = "running" /\ ctl' = ctl) =>
        \A st \in {"TCN", "EU"} :
            /\ \A pid \in DOMAIN sim.pax :
                  Holds(sim, pid, st) =>
                     LET p == sim.pax[pid]
                         q == sim'.pax[pid]
                     IN  \/ /\ Holds(sim', pid, st)
                            /\ p.pc # "request" => (q.t_start = p.t_start /\ q.serv = p.serv)
                         \/ /\ q.pc = "put" /\ q.station = st
                            /\ sim'.now = p.t_start + p.serv + sim.cfg.changeover
            /\ sim'.in_use[st] < sim.in_use[st] =>
                  /\ sim'.in_use[st] = sim.in_use[st] - 1
                  /\ \E pid \in DOMAIN sim.pax :
                        /\ sim.pax[pid].station = st /\ sim.pax[pid].pc = "put"
                        /\ sim'.pax[pid].pc # "put"
            /\ MgrGrants(sim', st) \ MgrGrants(sim, st) # {} =>
                  sim.store[st].items >= 1
      ]_vars

\* a decrease is due and its manager waits in the store's queue while every
\* token is with a passenger in service
C10_Witness ==
    \E st \in {"TCN", "EU"} :
        /\ sim.mgr[st].pc = "dec_get"
        /\ \E i \in 1..Len(sim.store[st].getq) : sim.store[st].getq[i] = MgrProc(st)
        /\ sim.store[st].items = 0
        /\ sim.now > sim.mgr[st].events[sim.mgr[st].k][1]
        /\ \E pid \in DOMAIN sim.pax :
              sim.pax[pid].station = st /\ sim.pax[pid].pc = "service"

\* Scenario B in the first run: one bus flight whose first bus delivers
\* bus_capacity = 2 passengers at the same instant, all of group TCN_V, the
\* kiosk disabled, no EU_MANUAL share, the TCN capacity fixed at 1
ScenarioB ==
    /\ ctl.phase = "first"
    /\ inp.flights = <<Flight(1, "R1", MaxPax, 0, "T2")>>
    /\ sim.cfg.share_tcn_v = 100 /\ sim.cfg.share_eu_manual = 0
    /\ ~sim.cfg.sss_enabled
    /\ sim.cfg.cap_tcn_schedule = Sched(1, 1)

\* the statement of C13 as the specification has it: in scenario B a
\* finished run has a snapshot with a TCN queue and a result with a TCN wait
C13_TcnQueueObserved ==
    (ScenarioB /\ Finished) =>
        /\ \E n \in 1..Len(sim.queue_ts) : sim.queue_ts[n].q_tcn > 0
        /\ \E n \in 1..Len(sim.results) : sim.results[n].wait_tcn > 0

\* C13: in scenario B no passenger of the run goes to a TCN counter: no
\* snapshot shows a TCN queue or a TCN counter in use and no result has a
\* TCN wait; the passengers queue at the EU counters: with the EU capacity
\* fixed at 1 a finished run has a snapshot with q_eu > 0, and a result with
\* wait_eu > 0 once a second passenger has left the system
C13_EuQueueObserved ==
    ScenarioB =>
        /\ \A n \in 1..Len(sim.queue_ts) :
                sim.queue_ts[n].q_tcn = 0 /\ sim.queue_ts[n].in_tcn = 0
        /\ \A n \in 1..Len(sim.results) :
                /\ sim.results[n].wait_tcn = 0 /\ ~sim.results[n].used_tcn
                /\ sim.results[n].used_eu
        /\ (Finished /\ sim.cfg.cap_eu_schedule = Sched(1, 1)) =>
                /\ \E n \in 1..Len(sim.queue_ts) : sim.queue_ts[n].q_eu > 0
                /\ Len(sim.results) >= 2 =>
                       \E n \in 1..Len(sim.results) : sim.results[n].wait_eu > 0

\* a finished run of scenario B with a queue and a wait at the EU counter
C13_Witness ==
    /\ ScenarioB /\ Finished
    /\ sim.cfg.cap_eu_schedule = Sched(1, 1)
    /\ \E n \in 1..Len(sim.queue_ts) : sim.queue_ts[n].q_eu > 0
    /\ \E n \in 1..Len(sim.results) : sim.results[n].wait_eu > 0

\* C15: once the flight_proc of a bus-served flight with n passengers has
\* run, with c the bus capacity: every passenger 1..n has one spawn_after
\* process of transport mode Bus and there is none beyond n; the passengers
\* with the same arrival delay are those of one block of c consecutive
\* indices, so there are ceil(n/c) buses of at most c passengers each; a
\* later bus does not arrive before an earlier one; and every passenger
\* that has arrived has the arrival instant of its bus
C15_Buses ==
    \A f \in 1..Len(sim.flights) :
      (PposDistance(sim.flights[f].ppos) <= 0 /\ sim.fl[f] = "done"
       /\ sim.status # "ValueError") =>
        LET n == sim.flights[f].spax
            c == sim.cfg.bus_capacity
            delay(i) == sim.spawn[<<f, i>>].delay
        IN  /\ {pid \in DOMAIN sim.spawn : pid[1] = f} = {<<f, i>> : i \in 1..n}
            /\ \A i \in 1..n : sim.spawn[<<f, i>>].transport_mode = "Bus"
            /\ \A i, j \in 1..n :
                  /\ delay(i) = delay(j) <=> (i - 1) \div c = (j - 1) \div c
                  /\ i < j => delay(i) <= delay(j)
            /\ Cardinality({delay(i) : i \in 1..n}) = (n + c - 1) \div c
            /\ \A i \in 1..n : Cardinality({j \in 1..n : delay(j) = delay(i)}) <= c
            /\ \A i \in 1..n :
                  (<<f, i>> \in DOMAIN sim.pax /\ sim.pax[<<f, i>>].pc # "start") =>
                      sim.pax[<<f, i>>].arrival_min = sim.flights[f].t_arr + delay(i)

\* a bus flight of three passengers in two buses, the passengers of the
\* first bus arrived at one instant, the passenger of the second bus later
C15_Witness ==
    /\ sim.status = "stopped"
    /\ PposDistance(sim.flights[1].ppos) <= 0
    /\ sim.flights[1].spax > sim.cfg.bus_capacity
    /\ \A i \in 1..sim.flights[1].spax :
          <<1, i>> \in DOMAIN sim.pax /\ sim.pax[<<1, i>>].pc # "start"
    /\ sim.pax[<<1, 1>>].arrival_min = sim.pax[<<1, 2>>].arrival_min
    /\ sim.pax[<<1, 3>>].arrival_min > sim.pax[<<1, 2>>].arrival_min

\* C16: a passenger who asked for a station at an instant when the station
\* had an idle server and nobody waiting has, once the station is recorded,
\* a wait of 0 for it, and its result carries that record; in particular
\* the one passenger of a run, of group EASYPASS, with cap_easypass = 1,
\* asks for an idle station and the finished run has its result, with
\* wait_easypass = 0, used_easypass set and no other station used
C16_NoWaitWhenIdle ==
    /\ \A pid \in DOMAIN sim.pax :
          LET p == sim.pax[pid]
          IN  /\ ("SSS" \in p.idle_at /\ p.used_sss) => p.wait_sss = 0
              /\ ("EASYPASS" \in p.idle_at /\ p.used_easypass) => p.wait_easypass = 0
              /\ ("EU" \in p.idle_at /\ p.used_eu) => p.wait_eu = 0
              /\ ("TCN" \in p.idle_at /\ p.used_tcn) => p.wait_tcn = 0
    /\ \A n \in 1..Len(sim.results) :
          LET pid == <<sim.results[n].flight_key, sim.results[n].pax_id>>
          IN  pid \in DOMAIN sim.pax /\ sim.results[n] = ResultOf(sim.pax[pid])
    /\ (/\ Spawned(sim.flights) = 1 /\ sim.cfg.cap_easypass = 1
        /\ <<1, 1>> \in DOMAIN sim.pax /\ sim.pax[<<1, 1>>].group = "EASYPASS") =>
          /\ sim.pax[<<1, 1>>].pc # "start" => "EASYPASS" \in sim.pax[<<1, 1>>].idle_at
          /\ Finished =>
                /\ Len(sim.results) = 1
                /\ sim.results[1].wait_easypass = 0 /\ sim.results[1].used_easypass
                /\ ~sim.results[1].used_sss /\ ~sim.results[1].used_eu
                /\ ~sim.results[1].used_tcn

\* a finished run of a single EASYPASS passenger who found the gate idle
C16_Witness ==
    /\ Finished
    /\ Spawned(sim.flights) = 1 /\ Len(sim.results) = 1
    /\ sim.cfg.cap_easypass = 1
    /\ sim.results[1].group = "EASYPASS" /\ sim.results[1].used_easypass
    /\ sim.results[1].serv_easypass > 0
    /\ "EASYPASS" \in sim.pax[<<1, 1>>].idle_at

\* C17: every PassengerResult has a wait of at least 0 at each of the four
\* stations, an exit instant not before its arrival instant, and a time in
\* the system that is their difference
C17_NonNegative ==
    \A n \in 1..Len(sim.results) :
        LET r == sim.results[n]
        IN  /\ r.wait_sss >= 0 /\ r.wait_easypass >= 0
            /\ r.wait_eu >= 0 /\ r.wait_tcn >= 0
            /\ r.exit_min >= r.arrival_min
            /\ r.system_min = r.exit_min - r.arrival_min

\* a result of a passenger who waited at the kiosk and at a counter
C17_Witness ==
    \E n \in 1..Len(sim.results) :
        /\ sim.results[n].wait_sss > 0
        /\ sim.results[n].wait_eu + sim.results[n].wait_tcn > 0
        /\ sim.results[n].exit_min > sim.results[n].arrival_min

\* C19: every PassengerResult has used exactly the stations of its group:
\* EASYPASS the Easypass gate only; EU_MANUAL the EU counter only; TCN_AT
\* the station tcn_at_target only; TCN_V the kiosk exactly when sss_enabled,
\* then exactly one of EU counter and TCN counter, never the Easypass gate;
\* and a TCN_V passenger at a counter has used the kiosk before when enabled
C19_StationsOfGroup ==
    /\ \A n \in 1..Len(sim.results) :
          LET r == sim.results[n]
              used == {st \in {"SSS", "EASYPASS", "EU", "TCN"} :
                          CASE st = "SSS" -> r.used_sss
                            [] st = "EASYPASS" -> r.used_easypass
                            [] st = "EU" -> r.used_eu
                            [] OTHER -> r.used_tcn}
          IN  CASE r.group = "EASYPASS" -> used = {"EASYPASS"}
                [] r.group = "EU_MANUAL" -> used = {"EU"}
                [] r.group = "TCN_AT" -> used = {sim.cfg.tcn_at_target}
                [] r.group = "TCN_V" ->
                      /\ "SSS" \in used <=> sim.cfg.sss_enabled
                      /\ used \ {"SSS"} \in {{"EU"}, {"TCN"}}
                [] OTHER -> FALSE
    /\ \A pid \in DOMAIN sim.pax :
          LET p == sim.pax[pid]
          IN  (p.group = "TCN_V" /\ p.station \in {"EU", "TCN"}) =>
                  (p.used_sss <=> sim.cfg.sss_enabled)

\* a finished run with a TCN_AT passenger served at its target, the TCN
\* counter, a TCN_V passenger served at the kiosk and then at an EU counter,
\* and a passenger of one of the other two groups
C19_Witness ==
    /\ Finished
    /\ sim.cfg.tcn_at_target = "TCN"
    /\ \E n \in 1..Len(sim.results) :
          sim.results[n].group = "TCN_AT" /\ sim.results[n].used_tcn
    /\ \E n \in 1..Len(sim.results) :
          /\ sim.results[n].group = "TCN_V"
          /\ sim.results[n].used_sss /\ sim.results[n].used_eu
    /\ \E n \in 1..Len(sim.results) :
          sim.results[n].group \in {"EU_MANUAL", "EASYPASS"}

\* C20: on every step in which a TCN_V passenger is routed to a counter
\* (at its start, or after the kiosk when enabled), it asks for an EU counter
\* at low priority if and only if no EU_MANUAL passenger is waiting for an EU
\* counter in the state of that instant; otherwise it asks for a TCN counter
C20_RoutedByEuManual ==
    [][\A pid \in DOMAIN sim.pax :
         (/\ pid \in DOMAIN sim'.pax
          /\ sim.pax[pid].group = "TCN_V"
          /\ sim.pax[pid].station \notin {"EU", "TCN"}
          /\ sim'.pax[pid].station \in {"EU", "TCN"}) =>
             LET waiting == \E q \in DOMAIN sim.pax :
                               /\ sim.pax[q].group = "EU_MANUAL"
                               /\ sim.pax[q].station = "EU"
                               /\ sim.pax[q].pc \in {"get", "request"}
             IN  /\ sim'.pax[pid].station = "EU" <=> ~waiting
                 /\ sim'.pax[pid].station = "EU" => sim'.pax[pid].eu_priority = 1
                 /\ sim'.pax[pid].t_arr = sim'.now]_vars

\* C21: once a flight_proc has drawn the groups of its flight of n
\* passengers, the passengers 1..n and no others have a group, each group is
\* one of the four of GROUPS and has a share above 0; the groups of the first
\* flight are the n consecutive weighted draws of the run's generator, the
\* i-th draw for passenger i
C21_AssignGroups ==
    \A f \in 1..Len(sim.flights) :
      (sim.fl[f] = "done" /\ sim.status # "ValueError") =>
        LET n == sim.flights[f].spax
            share(g) == CASE g = "EASYPASS" -> sim.cfg.share_easypass
                          [] g = "EU_MANUAL" -> sim.cfg.share_eu_manual
                          [] g = "TCN_AT" -> sim.cfg.share_tcn_at
                          [] g = "TCN_V" -> sim.cfg.share_tcn_v
                          [] OTHER -> 0
        IN  /\ {pid \in DOMAIN sim.spawn : pid[1] = f} = {<<f, i>> : i \in 1..n}
            /\ \A i \in 1..n :
                  /\ sim.spawn[<<f, i>>].group \in {GROUPS[k] : k \in 1..4}
                  /\ share(sim.spawn[<<f, i>>].group) > 0
            /\ f = 1 =>
                  LET a == AssignGroups(sim.cfg, RngSeed(inp.seed), n)
                  IN  /\ Len(a.groups) = n
                      /\ \A i \in 1..n : sim.spawn[<<1, i>>].group = a.groups[i]

\* the groups of a flight of MaxPax passengers are drawn from a mix with a
\* share of 0, and two passengers have different groups
C21_Witness ==
    /\ sim.fl[1] = "done" /\ sim.flights[1].spax = MaxPax
    /\ sim.cfg.share_easypass = 0 /\ sim.cfg.share_tcn_at = 0
    /\ sim.cfg.share_eu_manual > 0
    /\ \E i, j \in 1..MaxPax :
          sim.spawn[<<1, i>>].group # sim.spawn[<<1, j>>].group

\* C22: service order at the EU counters is priority, then first come first
\* served: while a passenger b waits in the queue of the EU counters, no
\* passenger a has begun EU service after b began waiting unless a comes
\* before b in that order: a TCN_V passenger (priority 1) never, an EU_MANUAL
\* passenger (priority 0) always before a TCN_V passenger, and a passenger
\* of b's priority only if it did not begin waiting after b
C22_PriorityThenFifo ==
    \A a, b \in DOMAIN sim.pax :
        LET pa == sim.pax[a]
            pb == sim.pax[b]
            getq == sim.store["EU"].getq
        IN  (/\ pa.group \in {"EU_MANUAL", "TCN_V"} /\ pb.group \in {"EU_MANUAL", "TCN_V"}
             /\ WaitsForEu(pb)
             /\ \E i \in 1..Len(getq) : getq[i] = Proc("pax", b[1], b[2])
             /\ StartedEu(pa) /\ pa.t_start > pb.t_arr) =>
                \/ pa.eu_priority < pb.eu_priority
                \/ pa.eu_priority = pb.eu_priority /\ pa.t_arr <= pb.t_arr

\* the tokens of a pool: idle, granted to a process that has not resumed
\* yet, or held by a passenger (counted in service until the process resumes
\* after it has put the token back)
PoolTokens(s, st) ==
    s.store[st].items + s.in_use[st]
    + Cardinality({e \in s.evq : e.kind = "get" /\ e.st = st})
    - Cardinality({e \in s.evq : e.kind = "put" /\ e.st = st /\ e.proc.k = "pax"})

\* C23: every schedule entry after the run's start is applied at its own
\* simulated time, in time order: once the clock has passed the time of an
\* entry that raises the capacity, the manager has applied the entry, and
\* while it is the latest entry due the pool holds at least its number of
\* tokens (idle, granted or in service), whatever the load of the pool and
\* the state of earlier entries
C23_RaisedOnTime ==
    \A st \in {"TCN", "EU"} :
        LET m == sim.mgr[st]
            sched == IF st = "TCN" THEN sim.cfg.cap_tcn_schedule
                     ELSE sim.cfg.cap_eu_schedule
            before(k) == IF k = 1 THEN InitialCap(ScheduleParsed(sched), sim.t0)
                         ELSE m.events[k - 1][2]
        IN  m.pc # "start" =>
              \A k \in 1..Len(m.events) :
                  (m.events[k][1] < sim.now /\ m.events[k][2] > before(k)) =>
                      /\ m.k > k
                      /\ (k = Len(m.events) \/ m.events[k + 1][1] > sim.now) =>
                            PoolTokens(sim, st) >= m.events[k][2]

\* C29: single writer of the capacity: a step of the event loop that resumes
\* no capacity manager (a flight, a spawn, a passenger that acquires, is
\* served or releases, the end of the run) changes neither
\* current_tcn_capacity / current_eu_capacity nor the number of tokens of a
\* pool; a step that changes one of them resumes the manager of that pool
C29_SingleWriter ==
    [][(ctl' = ctl /\ Running) =>
          \A st \in {"TCN", "EU"} :
              \/ /\ sim'.current_capacity[st] = sim.current_capacity[st]
                 /\ PoolTokens(sim', st) = PoolTokens(sim, st)
              \/ NextEvent(sim).proc = MgrProc(st)
      ]_vars

\* passengers have been served at the EU counters and one is in service
\* there while the manager has raised the capacity of the pool to two
C29_Witness ==
    /\ sim.cfg.cap_eu_schedule = Sched(1, 2)
    /\ sim.current_capacity["EU"] = 2 /\ PoolTokens(sim, "EU") = 2
    /\ sim.in_use["EU"] >= 1
    /\ \E n \in 1..Len(sim.results) : sim.results[n].used_eu

\* C30: on the bus path the passengers of bus k (from 0) of a flight reach
\* the control area at flight arrival + deboard offset + the fill times of
\* the buses 0..k + bus travel time, the fill time of a bus being (load / bus
\* capacity) x full-bus fill time (the buses before k are full, bus k carries
\* what is left, at most a full load); a bus does not depart before the bus
\* ahead of it; nothing else, no deboarding delay, is added
C30_BusArrival ==
    \A f \in 1..Len(sim.flights) :
      (PposDistance(sim.flights[f].ppos) <= 0 /\ sim.fl[f] = "done"
       /\ sim.status # "ValueError") =>
        LET n == sim.flights[f].spax
            c == sim.cfg.bus_capacity
            bus(i) == (i - 1) \div c
            load(k) == IF (k + 1) * c <= n THEN c ELSE n - k * c
            departure(k) == sim.cfg.deboard_offset + k * sim.cfg.bus_fill_time
                            + (load(k) * sim.cfg.bus_fill_time) \div c
        IN  /\ \A i \in 1..n :
                  /\ sim.spawn[<<f, i>>].delay
                        = departure(bus(i)) + sim.cfg.bus_travel_time
                  /\ (<<f, i>> \in DOMAIN sim.pax /\ sim.pax[<<f, i>>].pc # "start") =>
                        sim.pax[<<f, i>>].arrival_min
                            = sim.flights[f].t_arr + departure(bus(i))
                              + sim.cfg.bus_travel_time
            /\ \A k \in 1..((n - 1) \div c) : departure(k) >= departure(k - 1)

\* a bus flight that arrives two minutes after t0 and needs more than one
\* bus, every passenger arrived at the control area, the passengers of the
\* last bus after those of the first
C30_Witness ==
    /\ PposDistance(sim.flights[1].ppos) <= 0 /\ sim.flights[1].t_arr > 0
    /\ sim.flights[1].spax > sim.cfg.bus_capacity
    /\ \A i \in 1..sim.flights[1].spax :
          <<1, i>> \in DOMAIN sim.pax /\ sim.pax[<<1, i>>].pc # "start"
    /\ sim.pax[<<1, sim.flights[1].spax>>].arrival_min
          > sim.pax[<<1, 1>>].arrival_min
    /\ sim.pax[<<1, 1>>].arrival_min
          > sim.flights[1].t_arr + sim.cfg.deboard_offset + sim.cfg.bus_travel_time

C32_ReachedIsSnapshotted ==
    sim.status = "stopped" =>
        \A n \in 1..Len(sim.results) :
            LET r == sim.results[n]
                Shown(f) == \E i \in 1..Len(sim.queue_ts) : sim.queue_ts[i][f] >= 1
            IN  /\ r.wait_sss > 0 => Shown("q_sss")
                /\ r.wait_easypass > 0 => Shown("q_easypass")
                /\ r.wait_eu > 0 => Shown("q_eu")
                /\ r.wait_tcn > 0 => Shown("q_tcn")
                /\ r.serv_sss > 0 => Shown("in_sss")
                /\ r.serv_easypass > 0 => Shown("in_easypass")
                /\ r.serv_eu > 0 => Shown("in_eu")
                /\ r.serv_tcn > 0 => Shown("in_tcn")

\* the manager of pool st is lowering the capacity and has tokens left to
\* remove: a get of its own is queued or still to be made
DecreasePending(s, st) ==
    /\ s.mgr[st].pc = "dec_get"
    /\ \/ s.mgr[st].rem > 0
       \/ \E n \in 1..Len(s.store[st].getq) : s.store[st].getq[n] = MgrProc(st)

\* C35: the requests of a pool are granted in request order, the removals
\* of the manager included: no step grants a token to a passenger that has
\* asked for it after the decrease became due while the manager has still a
\* token of that decrease to remove, and no step grants a token to the
\* manager while a passenger that has asked before the decrease became due
\* is still waiting
C35_GrantedInRequestOrder ==
    [][\A st \in {"TCN", "EU"} :
          \A e \in sim'.evq \ sim.evq :
              (e.kind = "get" /\ e.st = st) =>
                  LET due == sim'.mgr[st].events[sim'.mgr[st].k][1]
                  IN  IF e.proc = MgrProc(st)
                      THEN \A n \in 1..Len(sim'.store[st].getq) :
                              LET w == sim'.store[st].getq[n]
                              IN  sim'.pax[<<w.f, w.i>>].t_arr >= due
                      ELSE DecreasePending(sim', st) =>
                              sim'.pax[<<e.proc.f, e.proc.i>>].t_arr <= due
      ]_vars

\* the passengers among the requests waiting in a queue of a store
WaitingPassengers(getq) == Cardinality({n \in 1..Len(getq) : getq[n].k = "pax"})

\* C36: q_tcn and q_eu of every snapshot are the numbers of passengers
\* waiting for a token of the pool when the snapshot is taken.  The
\* snapshots of a step are taken before the process that is resumed makes a
\* request of its own, and, when the step processes a token that was put
\* back, after the store has granted it to the head of the queue
C36_QueueCountsPassengers ==
    [][\A n \in (Len(sim.queue_ts) + 1)..Len(sim'.queue_ts) :
          LET at == IF NextEvent(sim).kind = "put" THEN sim' ELSE sim
          IN  /\ sim'.queue_ts[n].q_tcn = WaitingPassengers(at.store["TCN"].getq)
              /\ sim'.queue_ts[n].q_eu = WaitingPassengers(at.store["EU"].getq)
      ]_vars

\* C37: eu_manual_wait_count is never negative and is the number of
\* EU_MANUAL passengers that have asked for an EU counter and have not been
\* handed one yet (taken at its widest: up to the start of the service), so
\* it is 0 when no EU_MANUAL passenger waits
C37_CountsWaitingEuManual ==
    sim.status # "none" =>
        /\ sim.eu_manual_wait_count >= 0
        /\ sim.eu_manual_wait_count
             = Cardinality({pid \in DOMAIN sim.pax :
                               /\ sim.pax[pid].group = "EU_MANUAL"
                               /\ sim.pax[pid].station = "EU"
                               /\ sim.pax[pid].pc \in {"get", "request"}})

\* C38: for every finalized passenger system_min is exit_min - arrival_min
\* and is the sum, over the stations marked as used, of the wait, the
\* service time and the changeover; the wait and the service time of a
\* station that is not marked as used are 0
C38_SystemTimeIsSum ==
    \A n \in 1..Len(sim.results) :
        LET r == sim.results[n]
            changeover == IF sim.cfg.changeover > 0 THEN sim.cfg.changeover ELSE 0
            At(used, wait, serv) == IF used THEN wait + serv + changeover ELSE 0
        IN  /\ r.system_min = r.exit_min - r.arrival_min
            /\ r.system_min = At(r.used_sss, r.wait_sss, r.serv_sss)
                              + At(r.used_easypass, r.wait_easypass, r.serv_easypass)
                              + At(r.used_eu, r.wait_eu, r.serv_eu)
                              + At(r.used_tcn, r.wait_tcn, r.serv_tcn)
            /\ ~r.used_sss => r.wait_sss = 0 /\ r.serv_sss = 0
            /\ ~r.used_easypass => r.wait_easypass = 0 /\ r.serv_easypass = 0
            /\ ~r.used_eu => r.wait_eu = 0 /\ r.serv_eu = 0
            /\ ~r.used_tcn => r.wait_tcn = 0 /\ r.serv_tcn = 0

\* a run with a changeover in which a passenger has waited at the kiosk and
\* has then been served at a counter, and another has used one station only
C38_Witness ==
    /\ sim.cfg.changeover > 0
    /\ \E n, m \in 1..Len(sim.results) :
          /\ sim.results[n].used_sss /\ sim.results[n].wait_sss > 0
          /\ sim.results[n].used_eu \/ sim.results[n].used_tcn
          /\ sim.results[n].arrival_min > 0
          /\ ~sim.results[m].used_sss
          /\ sim.results[m].used_easypass \/ sim.results[m].used_eu
                                          \/ sim.results[m].used_tcn

\* the manager of pool st is between two schedule entries: it waits for the
\* next entry or has applied the last one
NotApplying(s, st) == s.mgr[st].pc \in {"delay", "done"}

\* C39 as stated: whenever the manager of a pool is not applying an entry,
\* the idle tokens plus the in-service count are the current capacity, and
\* the in-service count is not negative
C39_IdlePlusInUse ==
    \A st \in {"TCN", "EU"} :
        /\ sim.in_use[st] >= 0
        /\ NotApplying(sim, st) =>
              sim.store[st].items + sim.in_use[st] = sim.current_capacity[st]

\* C39: the in-service count is never negative and, whenever the manager of
\* a pool is not applying an entry, the idle tokens plus the in-service count
\* are the current capacity once the tokens on their way are counted: plus
\* the tokens granted to a passenger that has not resumed yet, minus the
\* tokens put back by a passenger that has not resumed yet
C39_TokenAccounting ==
    \A st \in {"TCN", "EU"} :
        LET granted == {e \in sim.evq : e.kind = "get" /\ e.st = st /\ e.proc.k = "pax"}
            returned == {e \in sim.evq : e.kind = "put" /\ e.st = st /\ e.proc.k = "pax"}
        IN  /\ sim.in_use[st] >= 0
            /\ NotApplying(sim, st) =>
                  /\ sim.store[st].items + sim.in_use[st]
                       + Cardinality(granted) - Cardinality(returned)
                       = sim.current_capacity[st]
                  /\ (granted = {} /\ returned = {}) =>
                        sim.store[st].items + sim.in_use[st]
                            = sim.current_capacity[st]

\* the EU pool after an increase to two tokens: one passenger in service, a
\* token granted to a second passenger that has not resumed yet
C39_Witness ==
    /\ NotApplying(sim, "EU") /\ sim.mgr["EU"].k > 1
    /\ sim.current_capacity["EU"] = 2
    /\ sim.in_use["EU"] = 1 /\ sim.store["EU"].items = 0
    /\ \E e \in sim.evq : e.kind = "get" /\ e.st = "EU" /\ e.proc.k = "pax"

-----------------------------------------------------------------------------
(* Simulation.py: the iterative capacity controller.  One iteration runs   *)
(* the engine on the flights of terminal T1, then on those of T2, flags    *)
(* the intervals whose rolling mean wait exceeds the service level, raises *)
(* their capacities and decides whether to go on.                          *)

\* max_iterations is 1..MaxIter, the capacity ceilings are 1..MaxCeiling
MaxIter == 3
MaxCeiling == 3

\* "HH:MM" of a minute of the day, as the number HHMM
HHMM(m) == (m \div 60) * 100 + (m % 60)

\* the key "HH:MM-HH:MM" of the 15-minute interval that holds minute m of a
\* day (m may run past midnight); the end of the last interval is "00:00"
KeyOfMinute(m) ==
    LET start == (15 * (m \div 15)) % (24 * 60)
    IN  <<HHMM(start), HHMM((start + 15) % (24 * 60))>>

\* the 15-minute intervals from 06:00 to 24:00
Intervals == [n \in 1..(18 * 4) |-> KeyOfMinute(6 * 60 + 15 * (n - 1))]

\* {interval: cap for interval in intervals}
NewSchedule(cap) == [n \in 1..Len(Intervals) |-> [key |-> Intervals[n], cap |-> cap]]

\* df_res["wait_total"]
WaitTotal(r) == r.wait_sss + r.wait_easypass + r.wait_eu + r.wait_tcn

\* _build_rolling_mean_timeseries at grid instant t: the rows of the groups
\* with t - window <= arrival_min <= t; their sum and their number
RollingWindow(results, groups, t, window) ==
    LET rows == {k \in 1..Len(results) :
                    /\ results[k].group \in groups
                    /\ results[k].arrival_min <= t
                    /\ results[k].arrival_min >= t - window}
        waits == [k \in 1..Len(results) |->
                    IF k \in rows THEN WaitTotal(results[k]) ELSE 0]
    IN  [sum |-> SumSeq(waits), n |-> Cardinality(rows)]

\* the grid of the rolling mean: every step_min = 5 minutes from 06:00 to
\* 24:00 of the day of t0, as instants relative to t0
Grid(t0) ==
    {6 * 60 * TicksPerMin - t0 + i * 5 * TicksPerMin : i \in 0..((18 * 60) \div 5)}

\* breaches computed over the passengers of every group
ScheduleBreachesAnyGroup(results, t0, groups, service_level) ==
    IF results = <<>> THEN {}
    ELSE {KeyOfMinute((t0 + t) \div TicksPerMin) :
            t \in {g \in Grid(t0) :
                    LET w == RollingWindow(results,
                                           {"EASYPASS", "EU_MANUAL", "TCN_AT", "TCN_V"},
                                           g, 15 * TicksPerMin)
                    IN  w.n > 0 /\ w.sum > service_level * w.n}}

\* get_tcn_schedule_breaches / get_eu_schedule_breaches: the keys of the
\* intervals that hold a grid instant whose mean wait over the last
\* window_min = 15 minutes is above the service level
ScheduleBreaches(results, t0, groups, service_level) ==
    IF results = <<>> THEN {}
    ELSE {KeyOfMinute((t0 + t) \div TicksPerMin) :
            t \in {g \in Grid(t0) :
                    LET w == RollingWindow(results, groups, g, 15 * TicksPerMin)
                    IN  w.n > 0 /\ w.sum > service_level * w.n}}

TcnBreaches(results, t0, service_level) ==
    ScheduleBreaches(results, t0, {"TCN_V", "TCN_AT"}, service_level)

EuBreaches(results, t0, service_level) ==
    ScheduleBreaches(results, t0, {"EU_MANUAL"}, service_level)

\* an increment loop that has no ceiling
IncrementUncapped(sched, breaches, max_cap) ==
    [n \in 1..Len(sched) |->
        IF sched[n].key \in breaches
        THEN [sched[n] EXCEPT !.cap = @ + 1] ELSE sched[n]]

\* an increment loop that closes the counters of the intervals not flagged
IncrementOrClose(sched, breaches, max_cap) ==
    [n \in 1..Len(sched) |->
        IF sched[n].key \in breaches
        THEN [sched[n] EXCEPT !.cap = IF @ < max_cap THEN @ + 1 ELSE @]
        ELSE [sched[n] EXCEPT !.cap = 1]]

\* an increment loop that raises every interval below the ceiling as soon as
\* one interval is flagged
IncrementAllBelow(sched, breaches, max_cap) ==
    [n \in 1..Len(sched) |->
        IF breaches # {} /\ sched[n].cap < max_cap
        THEN [sched[n] EXCEPT !.cap = @ + 1] ELSE sched[n]]

\* the increment loop of one schedule: every flagged interval of the
\* schedule that is below the ceiling is raised by one
Increment(sched, breaches, max_cap) ==
    [n \in 1..Len(sched) |->
        IF sched[n].key \in breaches /\ sched[n].cap < max_cap
        THEN [sched[n] EXCEPT !.cap = @ + 1] ELSE sched[n]]

\* capacity_changed after the loop of one schedule
CapacityChanged(sched, breaches, max_cap) ==
    \E n \in 1..Len(sched) : sched[n].key \in breaches /\ sched[n].cap < max_cap

\* termination checks that look at the iteration limit first
VerdictLimitFirst(flagged, capacity_changed, i, max_iterations) ==
    IF ~flagged THEN "Converged"
    ELSE IF i = max_iterations THEN "IterationLimitReached"
    ELSE IF ~capacity_changed THEN "StuckAtCeiling"
    ELSE "none"

\* termination checks without the break on an unchanged capacity
VerdictNoStuck(flagged, capacity_changed, i, max_iterations) ==
    IF ~flagged THEN "Converged"
    ELSE IF i = max_iterations THEN "IterationLimitReached"
    ELSE "none"

\* the termination checks of an iteration; "none": the loop goes on
Verdict(flagged, capacity_changed, i, max_iterations) ==
    IF ~flagged THEN "Converged"
    ELSE IF ~capacity_changed THEN "StuckAtCeiling"
    ELSE IF i = max_iterations THEN "IterationLimitReached"
    ELSE "none"

\* a split that hands every flight to both terminals
FlightsOfAny(flights, terminal) == flights

\* flights_t1 / flights_t2
FlightsOf(flights, terminal) == SelectSeq(flights, LAMBDA f : f.terminal = terminal)

\* cfg_t1 / cfg_t2: the settings with the schedules of the terminal
TerminalCfg(params, cap_tcn_schedule, cap_eu_schedule) ==
    [params EXCEPT !.cap_tcn_schedule = cap_tcn_schedule,
                   !.cap_eu_schedule = cap_eu_schedule]

-----------------------------------------------------------------------------
(* Inputs of the controller *)

\* service of 36 minutes at a counter, without spread (sigma = 0)
SlowCounter == [expmu |-> 36 * TicksPerMin, sigma |-> 0, cap |-> 36 * TicksPerMin]

\* sim_params of the sessions: passengers of TCN counters only and of EU
\* counters only, both with the slow counters; all four groups with the
\* default service times; two mixes that do not sum to 100 %
SessionParams ==
    {[DefaultCfg EXCEPT !.share_easypass = 0, !.share_eu_manual = 0,
                        !.share_tcn_at = 100, !.share_tcn_v = 0,
                        !.tcn_at_target = "TCN", !.sss_enabled = FALSE, !.cap_sss = 0,
                        !.cap_easypass = 1, !.bus_capacity = 2,
                        !.tcn_v_reg = SlowCounter, !.tcn_v_unreg = SlowCounter],
     [DefaultCfg EXCEPT !.share_easypass = 0, !.share_eu_manual = 100,
                        !.share_tcn_at = 0, !.share_tcn_v = 0,
                        !.sss_enabled = FALSE, !.cap_sss = 0,
                        !.cap_easypass = 1, !.bus_capacity = 2,
                        !.eu = SlowCounter],
     [DefaultCfg EXCEPT !.share_easypass = 25, !.share_eu_manual = 25,
                        !.share_tcn_at = 25, !.share_tcn_v = 25,
                        !.sss_enabled = TRUE, !.cap_sss = 1,
                        !.cap_easypass = 1, !.bus_capacity = 2],
     \* sliders that sum to 75 % and to 125 %
     [DefaultCfg EXCEPT !.share_easypass = 50, !.share_eu_manual = 25,
                        !.share_tcn_at = 0, !.share_tcn_v = 0,
                        !.sss_enabled = TRUE, !.cap_sss = 1,
                        !.cap_easypass = 1, !.bus_capacity = 2],
     [DefaultCfg EXCEPT !.share_easypass = 25, !.share_eu_manual = 25,
                        !.share_tcn_at = 25, !.share_tcn_v = 50,
                        !.sss_enabled = TRUE, !.cap_sss = 1,
                        !.cap_easypass = 1, !.bus_capacity = 2]}

\* mix_sum of the run handler, in percent
MixSum(params) ==
    params.share_easypass + params.share_eu_manual
    + params.share_tcn_at + params.share_tcn_v

\* a run handler without the check of the mix
MixAcceptedUnchecked(mix_sum) == TRUE

\* the run handler goes on: not (mix_sum != 100)
MixAccepted(mix_sum) == ~(mix_sum # 100)

\* 23:40 in ticks since midnight
LateEvening == (23 * 60 + 40) * TicksPerMin

\* the selected flights with t0, the earliest of them: one flight of T1 in
\* the morning; a flight of T1 and a flight of T2 late in the evening
Days ==
    {[flights |-> <<Flight(1, "02B", MaxPax, 0, "T1")>>, t0 |-> SixOClock],
     [flights |-> <<Flight(1, "02B", MaxPax, 0, "T1"),
                    Flight(2, "05", MaxPax, 7 * TicksPerMin, "T2")>>,
      t0 |-> LateEvening]}

\* the session state the controller reads; beside the sessions above, the
\* sessions of scenario B: one bus flight of T1 whose first bus delivers two
\* passengers at one instant, all of group TCN_V, the kiosk disabled, a
\* service of 36 minutes at every counter
Sessions ==
    {[flights |-> d.flights, t0 |-> d.t0, seed |-> seed, params |-> sp,
      tcn_min_capacity |-> 1, min_eu_capacity |-> 1,
      max_tcn_capacity_t1 |-> c, max_tcn_capacity_t2 |-> 2, max_eu_capacity |-> e,
      max_iterations |-> mi, service_level |-> 10 * TicksPerMin] :
        d \in Days, seed \in {0, MaxSeed}, sp \in SessionParams,
        c \in 1..MaxCeiling, e \in {1, MaxCeiling}, mi \in 1..MaxIter}
    \cup
    {[flights |-> <<Flight(1, "R1", MaxPax, 0, "T1")>>, t0 |-> SixOClock,
      seed |-> seed,
      params |-> [DefaultCfg EXCEPT
                     !.share_easypass = 0, !.share_eu_manual = 0,
                     !.share_tcn_at = 0, !.share_tcn_v = 100,
                     !.sss_enabled = FALSE, !.cap_sss = 0,
                     !.cap_easypass = 1, !.bus_capacity = 2,
                     !.eu = SlowCounter,
                     !.tcn_v_reg = SlowCounter, !.tcn_v_unreg = SlowCounter],
      tcn_min_capacity |-> 1, min_eu_capacity |-> 1,
      max_tcn_capacity_t1 |-> c, max_tcn_capacity_t2 |-> 2, max_eu_capacity |-> e,
      max_iterations |-> mi, service_level |-> 10 * TicksPerMin] :
        seed \in {0, MaxSeed}, c \in 1..MaxCeiling, e \in {1, MaxCeiling},
        mi \in 1..MaxIter}
    \cup
    \* a bus flight of EU_MANUAL passengers whose first bus, with a travel
    \* time of 3 minutes, reaches the counters at 06:15:00
    {[flights |-> <<Flight(1, "R1", MaxPax, 0, "T1")>>, t0 |-> SixOClock,
      seed |-> 0,
      params |-> [DefaultCfg EXCEPT
                     !.share_easypass = 0, !.share_eu_manual = 100,
                     !.share_tcn_at = 0, !.share_tcn_v = 0,
                     !.sss_enabled = FALSE, !.cap_sss = 0,
                     !.cap_easypass = 1, !.bus_capacity = 2,
                     !.bus_travel_time = 3 * TicksPerMin,
                     !.eu = SlowCounter],
      tcn_min_capacity |-> 1, min_eu_capacity |-> 1,
      max_tcn_capacity_t1 |-> 1, max_tcn_capacity_t2 |-> 2,
      max_eu_capacity |-> MaxCeiling,
      max_iterations |-> MaxIter, service_level |-> 10 * TicksPerMin]}

-----------------------------------------------------------------------------
(* Specification SpecCtl: the iteration loop of Simulation.py, the engine  *)
(* runs of an iteration step by step                                       *)

\* run_simulation on the flights of a terminal with the controller's schedules
TerminalRun(terminal, cap_tcn_schedule, cap_eu_schedule) ==
    RunSimulation(FlightsOf(inp.flights, terminal),
                  TerminalCfg(inp.params, cap_tcn_schedule, cap_eu_schedule),
                  inp.t0, inp.seed)

\* no engine run: the handler has called st.stop() before the loop
NoRun ==
    [status |-> "none", evq |-> {}, results |-> <<>>, queue_ts |-> <<>>,
     cfg |-> [cap_tcn_schedule |-> <<>>, cap_eu_schedule |-> <<>>]]

\* the run handler up to the first run of T1: the check of the mix, then the
\* schedules at the minimum (written also for a session that is stopped,
\* whose loop is never entered)
CtlInit ==
    /\ inp \in Sessions
    /\ ctl = [pc |-> IF MixAccepted(MixSum(inp.params)) THEN "t1" ELSE "rejected",
              i |-> 1, outcome |-> "none", m1 |-> <<>>,
              cap_tcn_schedule_t1 |-> NewSchedule(inp.tcn_min_capacity),
              cap_tcn_schedule_t2 |-> NewSchedule(inp.tcn_min_capacity),
              cap_eu_schedule_t1 |-> NewSchedule(inp.min_eu_capacity),
              cap_eu_schedule_t2 |-> NewSchedule(inp.min_eu_capacity)]
    /\ sim = IF ctl.pc = "rejected" THEN NoRun
             ELSE TerminalRun("T1", ctl.cap_tcn_schedule_t1, ctl.cap_eu_schedule_t1)

\* the run of T1 has returned: its results are kept, the run of T2 starts
RunT2 ==
    /\ ctl.pc = "t1"
    /\ sim.status = "stopped"
    /\ ctl' = [ctl EXCEPT !.pc = "t2", !.m1 = sim.results]
    /\ sim' = TerminalRun("T2", ctl.cap_tcn_schedule_t2, ctl.cap_eu_schedule_t2)
    /\ UNCHANGED inp

\* the run of T2 has returned: the breaches of both runs, the increments,
\* the termination checks and, when the loop goes on, the next run of T1
Adjust ==
    /\ ctl.pc = "t2"
    /\ sim.status = "stopped"
    /\ LET breaches_t1 == TcnBreaches(ctl.m1, inp.t0, inp.service_level)
           breaches_eu_t1 == EuBreaches(ctl.m1, inp.t0, inp.service_level)
           breaches_t2 == TcnBreaches(sim.results, inp.t0, inp.service_level)
           breaches_eu_t2 == EuBreaches(sim.results, inp.t0, inp.service_level)
           capacity_changed ==
               \/ CapacityChanged(ctl.cap_tcn_schedule_t1, breaches_t1,
                                  inp.max_tcn_capacity_t1)
               \/ CapacityChanged(ctl.cap_eu_schedule_t1, breaches_eu_t1,
                                  inp.max_eu_capacity)
               \/ CapacityChanged(ctl.cap_tcn_schedule_t2, breaches_t2,
                                  inp.max_tcn_capacity_t2)
               \/ CapacityChanged(ctl.cap_eu_schedule_t2, breaches_eu_t2,
                                  inp.max_eu_capacity)
           flagged == (breaches_t1 \cup breaches_eu_t1
                       \cup breaches_t2 \cup breaches_eu_t2) # {}
           outcome == Verdict(flagged, capacity_changed, ctl.i, inp.max_iterations)
           c1 == [ctl EXCEPT
                    !.cap_tcn_schedule_t1 =
                        Increment(@, breaches_t1, inp.max_tcn_capacity_t1),
                    !.cap_eu_schedule_t1 =
                        Increment(@, breaches_eu_t1, inp.max_eu_capacity),
                    !.cap_tcn_schedule_t2 =
                        Increment(@, breaches_t2, inp.max_tcn_capacity_t2),
                    !.cap_eu_schedule_t2 =
                        Increment(@, breaches_eu_t2, inp.max_eu_capacity),
                    !.outcome = outcome]
       IN  IF outcome = "none"
           THEN /\ ctl' = [c1 EXCEPT !.pc = "t1", !.i = @ + 1]
                /\ sim' = TerminalRun("T1", c1.cap_tcn_schedule_t1,
                                      c1.cap_eu_schedule_t1)
           ELSE /\ ctl' = [c1 EXCEPT !.pc = "end"]
                /\ sim' = sim
    /\ UNCHANGED inp

NextCtl == EngineStep \/ RunT2 \/ Adjust

SpecCtl == CtlInit /\ [][NextCtl]_vars

-----------------------------------------------------------------------------
(* Properties of the controller, checked under SpecCtl *)

Terminal == {"Converged", "StuckAtCeiling", "IterationLimitReached"}

\* the four schedules of the controller with their ceilings
CtlSchedules ==
    <<[sched |-> ctl.cap_tcn_schedule_t1, max |-> inp.max_tcn_capacity_t1,
       min |-> inp.tcn_min_capacity],
      [sched |-> ctl.cap_eu_schedule_t1, max |-> inp.max_eu_capacity,
       min |-> inp.min_eu_capacity],
      [sched |-> ctl.cap_tcn_schedule_t2, max |-> inp.max_tcn_capacity_t2,
       min |-> inp.tcn_min_capacity],
      [sched |-> ctl.cap_eu_schedule_t2, max |-> inp.max_eu_capacity,
       min |-> inp.min_eu_capacity]>>

\* the step that ends an iteration: the run of T2 has returned
EndsIteration == ctl.pc = "t2" /\ ctl'.pc # "t2"

\* an interval was flagged in the iteration that ends: a breach in the
\* results of its run of T1 or of T2
Flagged ==
    \/ TcnBreaches(ctl.m1, inp.t0, inp.service_level) # {}
    \/ EuBreaches(ctl.m1, inp.t0, inp.service_level) # {}
    \/ TcnBreaches(sim.results, inp.t0, inp.service_level) # {}
    \/ EuBreaches(sim.results, inp.t0, inp.service_level) # {}

\* the iteration that ends changes a scheduled capacity
SchedulesChange ==
    \E k \in 1..4 : CtlSchedules[k].sched' # CtlSchedules[k].sched

\* C5: the controller stops in exactly one of three states, decided after
\* the runs and the capacity update of an iteration: Converged iff no
\* interval was flagged; StuckAtCeiling if flagged and no capacity changed;
\* IterationLimitReached if flagged, changed and the iteration is the last
\* allowed; otherwise it runs another iteration; once stopped it stays so
C5_TerminalStates ==
    [][/\ EndsIteration =>
            /\ ctl'.outcome = "Converged" <=> ~Flagged
            /\ (Flagged /\ ~SchedulesChange) => ctl'.outcome = "StuckAtCeiling"
            /\ (Flagged /\ SchedulesChange /\ ctl.i = inp.max_iterations) =>
                    ctl'.outcome = "IterationLimitReached"
            /\ (Flagged /\ SchedulesChange /\ ctl.i # inp.max_iterations) =>
                    /\ ctl'.outcome = "none" /\ ctl'.pc = "t1"
                    /\ ctl'.i = ctl.i + 1 /\ sim'.status = "running"
            /\ ctl'.outcome \in Terminal <=> ctl'.pc = "end"
       /\ ~EndsIteration => ctl'.outcome = ctl.outcome
       /\ ctl.pc = "end" => ctl' = ctl
      ]_vars

\* the controller has stopped without convergence after it has raised a
\* capacity in an earlier iteration
C5_Witness ==
    /\ ctl.pc = "end" /\ ctl.outcome = "StuckAtCeiling" /\ ctl.i >= 2

\* C6: no iteration lowers the scheduled capacity of any interval of any
\* station and terminal
C6_Monotone ==
    [][\A k \in 1..4 : \A n \in 1..Len(Intervals) :
          /\ CtlSchedules[k].sched'[n].key = CtlSchedules[k].sched[n].key
          /\ CtlSchedules[k].sched'[n].cap >= CtlSchedules[k].sched[n].cap
      ]_vars

\* a later iteration runs with a capacity raised above the minimum in some
\* intervals and left at the minimum in others
C6_Witness ==
    /\ ctl.i >= 2 /\ sim.status = "running"
    /\ \E k \in 1..4 : \E n, m \in 1..Len(Intervals) :
          /\ CtlSchedules[k].sched[n].cap > CtlSchedules[k].min
          /\ CtlSchedules[k].sched[m].cap = CtlSchedules[k].min

WithinCeiling(sched, max_cap) ==
    \A n \in 1..Len(sched) : sched[n].cap <= max_cap

\* the terminal of the engine run in progress, or of the last one
RunTerminal == IF ctl.pc = "t1" THEN "T1" ELSE "T2"

\* C7: in every schedule handed to the engine and in the final schedules,
\* each interval's TCN capacity is at most the terminal's TCN ceiling and
\* each interval's EU capacity at most the EU ceiling
C7_Ceilings ==
    /\ \A k \in 1..4 : WithinCeiling(CtlSchedules[k].sched, CtlSchedules[k].max)
    /\ WithinCeiling(sim.cfg.cap_tcn_schedule,
                     IF RunTerminal = "T1" THEN inp.max_tcn_capacity_t1
                     ELSE inp.max_tcn_capacity_t2)
    /\ WithinCeiling(sim.cfg.cap_eu_schedule, inp.max_eu_capacity)

\* the engine runs with an interval at a ceiling above the minimum, and the
\* controller stops with that interval flagged again
C7_Witness ==
    /\ ctl.pc = "end" /\ ctl.outcome = "StuckAtCeiling"
    /\ \E k \in 1..4 : \E n \in 1..Len(Intervals) :
          /\ CtlSchedules[k].max >= 2
          /\ CtlSchedules[k].sched[n].cap = CtlSchedules[k].max
          /\ sim.cfg.cap_tcn_schedule[n].cap = inp.max_tcn_capacity_t2
             \/ sim.cfg.cap_eu_schedule[n].cap = inp.max_eu_capacity
             \/ ctl.cap_tcn_schedule_t1[n].cap = inp.max_tcn_capacity_t1

\* C8: the controller makes at most max_iterations runs per terminal; an
\* iteration after which it goes on has raised at least one capacity, by
\* one, and no interval is raised more often than ceiling - initial times
C8_Termination ==
    /\ [](/\ ctl.i \in 1..inp.max_iterations
          /\ \A k \in 1..4 : \A n \in 1..Len(Intervals) :
                /\ CtlSchedules[k].sched[n].cap - CtlSchedules[k].min
                      <= CtlSchedules[k].max - CtlSchedules[k].min
                /\ CtlSchedules[k].sched[n].cap - CtlSchedules[k].min
                      <= IF ctl.pc = "end" THEN ctl.i ELSE ctl.i - 1)
    /\ [][/\ ctl'.i \in {ctl.i, ctl.i + 1}
          /\ (sim.status = "stopped" /\ sim'.status = "running") =>
                (ctl.pc = "t1" /\ ctl'.pc = "t2" /\ ctl'.i = ctl.i)
                \/ (ctl.pc = "t2" /\ ctl'.pc = "t1" /\ ctl'.i = ctl.i + 1)
          /\ ctl'.i = ctl.i + 1 =>
                /\ \E k \in 1..4 : \E n \in 1..Len(Intervals) :
                      CtlSchedules[k].sched'[n].cap = CtlSchedules[k].sched[n].cap + 1
                /\ \A k \in 1..4 : \A n \in 1..Len(Intervals) :
                      CtlSchedules[k].sched'[n].cap - CtlSchedules[k].sched[n].cap
                          \in {0, 1}
         ]_vars

\* the controller has used every iteration it was allowed, more than one,
\* and stops at the limit
C8_Witness ==
    /\ ctl.pc = "end" /\ ctl.outcome = "IterationLimitReached"
    /\ ctl.i = inp.max_iterations /\ ctl.i >= 2

\* C11: a session whose mix shares do not sum to 100 % is rejected before
\* any run starts: no engine run is started for it and no results are
\* produced; every engine run has a mix that sums to 100 %
C11_MixRejected ==
    /\ MixSum(inp.params) # 100 =>
            /\ ctl.pc = "rejected"
            /\ sim.status = "none" /\ sim.results = <<>> /\ sim.queue_ts = <<>>
    /\ sim.status # "none" => MixSum(sim.cfg) = 100

\* the handler has stopped a session whose sliders sum to more than 100 %
C11_Witness ==
    /\ MixSum(inp.params) > 100
    /\ ctl.pc = "rejected" /\ sim = NoRun

\* C14: scenario B, second part: after the first iteration of a session of
\* scenario B whose TCN ceiling is above the minimum, every interval the
\* first run of T1 breached has its TCN capacity raised by one, and the
\* second run of T1 breaches the service level at fewer grid instants of
\* that interval than the first run, or at none
C14_BreachesReduced ==
    (/\ inp.params.share_tcn_v = 100 /\ ~inp.params.sss_enabled
     /\ inp.max_tcn_capacity_t1 > inp.tcn_min_capacity
     /\ ctl.pc = "t1" /\ ctl.i = 2 /\ sim.status = "stopped") =>
        LET at(results, key) ==
                {g \in Grid(inp.t0) :
                    /\ KeyOfMinute((inp.t0 + g) \div TicksPerMin) = key
                    /\ LET w == RollingWindow(results, {"TCN_V", "TCN_AT"}, g,
                                              15 * TicksPerMin)
                       IN  w.n > 0 /\ w.sum > inp.service_level * w.n}
        IN  \A n \in 1..Len(ctl.cap_tcn_schedule_t1) :
              LET key == ctl.cap_tcn_schedule_t1[n].key
              IN  at(ctl.m1, key) # {} =>
                    /\ ctl.cap_tcn_schedule_t1[n].cap = inp.tcn_min_capacity + 1
                    /\ sim.cfg.cap_tcn_schedule[n].cap = inp.tcn_min_capacity + 1
                    /\ \/ at(sim.results, key) = {}
                       \/ Cardinality(at(sim.results, key))
                             < Cardinality(at(ctl.m1, key))

\* C25: in one iteration the scheduled capacity of a (terminal, station,
\* interval) rises by exactly 1 if the interval was flagged for that terminal
\* and station and its capacity is below the ceiling; every other entry is
\* unchanged, in that step and in every other step; every schedule keeps the
\* intervals created at initialisation, every 15 minutes from 06:00 to 24:00
C25_RaisedIffFlagged ==
    /\ [](\A k \in 1..4 :
            /\ Len(CtlSchedules[k].sched) = 18 * 4
            /\ \A n \in 1..(18 * 4) :
                  LET start == 6 * 60 + 15 * (n - 1)
                  IN  CtlSchedules[k].sched[n].key
                          = <<HHMM(start), HHMM((start + 15) % (24 * 60))>>)
    /\ [][IF EndsIteration
          THEN \A k \in 1..4 :
                  LET flagged ==
                          CASE k = 1 -> TcnBreaches(ctl.m1, inp.t0, inp.service_level)
                            [] k = 2 -> EuBreaches(ctl.m1, inp.t0, inp.service_level)
                            [] k = 3 -> TcnBreaches(sim.results, inp.t0,
                                                    inp.service_level)
                            [] k = 4 -> EuBreaches(sim.results, inp.t0,
                                                   inp.service_level)
                      old == CtlSchedules[k].sched
                      new == CtlSchedules[k].sched'
                      max == CtlSchedules[k].max
                  IN  \A n \in 1..(18 * 4) :
                        new[n].cap = IF old[n].key \in flagged /\ old[n].cap < max
                                     THEN old[n].cap + 1 ELSE old[n].cap
          ELSE /\ ctl'.cap_tcn_schedule_t1 = ctl.cap_tcn_schedule_t1
               /\ ctl'.cap_eu_schedule_t1 = ctl.cap_eu_schedule_t1
               /\ ctl'.cap_tcn_schedule_t2 = ctl.cap_tcn_schedule_t2
               /\ ctl'.cap_eu_schedule_t2 = ctl.cap_eu_schedule_t2
         ]_vars

\* after the first iteration an interval of the TCN schedule of T1 is raised
\* by one while the same interval of the EU schedule of T1 and of the TCN
\* schedule of T2, both below their ceilings, is as before, and an interval
\* that was flagged at its ceiling is as before
C25_Witness ==
    /\ ctl.i = 2 /\ ctl.pc = "t1"
    /\ inp.max_eu_capacity > inp.min_eu_capacity
    /\ \E n \in 1..Len(Intervals) :
          /\ ctl.cap_tcn_schedule_t1[n].cap = inp.tcn_min_capacity + 1
          /\ ctl.cap_eu_schedule_t1[n].cap = inp.min_eu_capacity
          /\ ctl.cap_tcn_schedule_t2[n].cap = inp.tcn_min_capacity
    /\ \E n \in 1..Len(Intervals) :
          /\ ctl.cap_tcn_schedule_t1[n].key
                \in TcnBreaches(ctl.m1, inp.t0, inp.service_level)
          /\ ctl.cap_tcn_schedule_t1[n].cap = inp.max_tcn_capacity_t1

\* C28: when the controller has stopped with StuckAtCeiling, every interval
\* flagged in the last iteration, for every terminal and station, has its
\* scheduled capacity at the ceiling of that terminal and station
C28_StuckMeansCeiling ==
    (ctl.pc = "end" /\ ctl.outcome = "StuckAtCeiling") =>
        \A k \in 1..4 :
            LET flagged ==
                    CASE k = 1 -> TcnBreaches(ctl.m1, inp.t0, inp.service_level)
                      [] k = 2 -> EuBreaches(ctl.m1, inp.t0, inp.service_level)
                      [] k = 3 -> TcnBreaches(sim.results, inp.t0, inp.service_level)
                      [] k = 4 -> EuBreaches(sim.results, inp.t0, inp.service_level)
            IN  \A key \in flagged :
                    \E n \in 1..Len(CtlSchedules[k].sched) :
                        /\ CtlSchedules[k].sched[n].key = key
                        /\ CtlSchedules[k].sched[n].cap = CtlSchedules[k].max

\* C26: for the results of a finished run, get_tcn_schedule_breaches and
\* get_eu_schedule_breaches return exactly the 15-minute wall-clock intervals
\* that hold a grid point (every 5 minutes from 06:00 to 24:00) at which the
\* 15-minute rolling mean of the total wait is above the service level: the
\* TCN result with the mean over the TCN_V and TCN_AT passengers, the EU
\* result with the mean over the EU_MANUAL passengers; no results, no breaches
C26_BreachedIntervals ==
    sim.status = "stopped" =>
        \A st \in {"TCN", "EU"} :
            LET groups == IF st = "TCN" THEN {"TCN_V", "TCN_AT"} ELSE {"EU_MANUAL"}
                returned == IF st = "TCN"
                            THEN TcnBreaches(sim.results, inp.t0, inp.service_level)
                            ELSE EuBreaches(sim.results, inp.t0, inp.service_level)
                above(minute) ==
                    LET w == RollingWindow(sim.results, groups,
                                           minute * TicksPerMin - inp.t0,
                                           15 * TicksPerMin)
                    IN  IF w.n = 0 THEN 0 > inp.service_level
                        ELSE w.sum > inp.service_level * w.n
                key(start) == <<HHMM(start % (24 * 60)), HHMM((start + 15) % (24 * 60))>>
                starts == {6 * 60 + 15 * n : n \in 0..(18 * 4)}
                breached == {start \in starts :
                                \E j \in 0..2 : /\ start + 5 * j <= 24 * 60
                                                /\ above(start + 5 * j)}
            IN  /\ returned = {key(start) : start \in breached}
                /\ sim.results = <<>> => returned = {}

\* a finished run of TCN passengers only: the TCN result holds more than one
\* interval, among them the one of the grid point 24:00, and the EU result
\* none although passengers have waited
C26_Witness ==
    /\ sim.status = "stopped" /\ sim.results # <<>>
    /\ Cardinality(TcnBreaches(sim.results, inp.t0, inp.service_level)) >= 2
    /\ <<0, 15>> \in TcnBreaches(sim.results, inp.t0, inp.service_level)
    /\ EuBreaches(sim.results, inp.t0, inp.service_level) = {}

\* C27: the rolling mean at grid time t is the mean over exactly the data
\* points whose time lies in the half-open window (t - window_min, t], and 0
\* when there is none: for the results of every finished run, at every grid
\* instant, the sum and the number of the values averaged are those of the
\* passengers of the groups with t - window_min < arrival_min <= t
C27_HalfOpenWindow ==
    sim.status = "stopped" =>
        \A groups \in {{"TCN_V", "TCN_AT"}, {"EU_MANUAL"}} :
            \A t \in Grid(inp.t0) :
                LET rows == {k \in 1..Len(sim.results) :
                                /\ sim.results[k].group \in groups
                                /\ t - 15 * TicksPerMin < sim.results[k].arrival_min
                                /\ sim.results[k].arrival_min <= t}
                    w == RollingWindow(sim.results, groups, t, 15 * TicksPerMin)
                IN  /\ w.n = Cardinality(rows)
                    /\ w.sum = SumSeq([k \in 1..Len(sim.results) |->
                                        IF k \in rows THEN WaitTotal(sim.results[k])
                                        ELSE 0])

\* C33: in each of the three terminal states the schedules the controller
\* reports (the four dictionaries, which last_cfg_t1 and last_cfg_t2 refer
\* to) are the schedules the last runs of T1 and T2 were made with: the step
\* that ends the loop leaves them as they were when these runs were started
C33_ReportedSchedulesProducedOutput ==
    [][(ctl.pc = "t2" /\ ctl'.pc = "end") =>
          /\ ctl'.outcome \in Terminal
          /\ ctl'.cap_tcn_schedule_t1 = ctl.cap_tcn_schedule_t1
          /\ ctl'.cap_eu_schedule_t1 = ctl.cap_eu_schedule_t1
          /\ ctl'.cap_tcn_schedule_t2 = sim.cfg.cap_tcn_schedule
          /\ ctl'.cap_eu_schedule_t2 = sim.cfg.cap_eu_schedule]_vars

-----------------------------------------------------------------------------
(* Specification SpecEdge: run_simulation called with a SimConfig at the   *)
(* edges of its fields: a negative capacity, a cap of a service time below *)
(* the floor of 0.05 s, service times drawn below the floor, a start of the *)
(* run before the first entry of the capacity schedules; and, beside them, *)
(* the same SimConfig without the edge.                                    *)

\* some capacity of a SimConfig, static or scheduled, is negative
NegativeCapacity(cfg) ==
    \/ cfg.cap_sss < 0
    \/ cfg.cap_easypass < 0
    \/ \E n \in 1..Len(cfg.cap_tcn_schedule) : cfg.cap_tcn_schedule[n].cap < 0
    \/ \E n \in 1..Len(cfg.cap_eu_schedule) : cfg.cap_eu_schedule[n].cap < 0

\* all four groups, TCN_AT at the TCN counters, one kiosk, one Easypass gate,
\* one counter each all day
PlainCfg ==
    [DefaultCfg EXCEPT !.cap_tcn_schedule = Sched(1, 1), !.cap_eu_schedule = Sched(1, 1),
                       !.share_easypass = 25, !.share_eu_manual = 25,
                       !.share_tcn_at = 25, !.share_tcn_v = 25,
                       !.tcn_at_target = "TCN",
                       !.sss_enabled = TRUE, !.cap_sss = 1, !.cap_easypass = 1,
                       !.bus_capacity = 2]

EdgeCfgs ==
    {PlainCfg,
     \* a TCN schedule that starts with -1 counters, an EU schedule that ends so
     [PlainCfg EXCEPT !.cap_tcn_schedule = Sched(-1, 1)],
     [PlainCfg EXCEPT !.cap_eu_schedule = Sched(1, -1)],
     \* -1 kiosks, -1 Easypass gates
     [PlainCfg EXCEPT !.cap_sss = -1],
     [PlainCfg EXCEPT !.cap_easypass = -1],
     \* max_easypass_s = 0 and max_eu_s = 0: a cap below the floor
     [PlainCfg EXCEPT !.easypass.cap = 0],
     [PlainCfg EXCEPT !.eu.cap = 0, !.eu.sigma = 0],
     \* values below the floor and above the cap: exp(mu_eu_s) below 0.05 s
     \* and exp(mu_easypass_s) = 100 s above the cap of 90 s, both without
     \* spread; sd_sss_s above mean_sss_s
     [PlainCfg EXCEPT !.eu.expmu = 0, !.eu.sigma = 0,
                      !.easypass.expmu = 2000, !.easypass.sigma = 0,
                      !.mean_sss = 680, !.sd_sss = 2040],
     \* schedules whose entries differ: two counters from 06:08 at TCN; two,
     \* one from 06:20 and three from 06:30 at EU
     [PlainCfg EXCEPT !.cap_tcn_schedule = Sched(1, 2),
                      !.cap_eu_schedule = StallSched]}

\* t0 of the runs: 06:00, 05:00 (before every entry of a schedule) and 06:10
EdgeStarts == {SixOClock, 5 * 60 * TicksPerMin, 370 * TicksPerMin}

InitEdge ==
    /\ inp \in [flights : {<<Flight(1, "02B", MaxPax, 0, "T1")>>},
                cfg : EdgeCfgs, t0 : EdgeStarts, seed : 0..MaxSeed]
    /\ sim = RunSimulation(inp.flights, inp.cfg, inp.t0, inp.seed)
    /\ ctl = [phase |-> "first", raised |-> FALSE, first |-> <<>>]

NextEdge == EngineStep

SpecEdge == InitEdge /\ [][NextEdge]_vars

\* C12: a SimConfig with a negative capacity, static or in a schedule, is
\* rejected with an error before the run starts: the engine never simulates it
C12_NegativeRejected ==
    NegativeCapacity(sim.cfg) =>
        /\ sim.status = "ValueError"
        /\ sim.now = 0 /\ sim.queue_ts = <<>> /\ sim.results = <<>>

\* the statement of C18 as the specification has it: the service duration
\* recorded for a visited station is at least the floor and at most the cap
\* of the station's distribution (the kiosk's distribution has no cap)
C18_WithinFloorAndCap ==
    \A n \in 1..Len(sim.results) :
        LET r == sim.results[n]
            tcn == IF r.ees_status = "EES_registered"
                   THEN sim.cfg.tcn_v_reg ELSE sim.cfg.tcn_v_unreg
        IN  /\ r.used_sss => r.serv_sss >= FloorTicks
            /\ r.used_easypass =>
                  r.serv_easypass >= FloorTicks /\ r.serv_easypass <= sim.cfg.easypass.cap
            /\ r.used_eu => r.serv_eu >= FloorTicks /\ r.serv_eu <= sim.cfg.eu.cap
            /\ r.used_tcn => r.serv_tcn >= FloorTicks /\ r.serv_tcn <= tcn.cap

\* C18: the service duration recorded for a visited station is at most the
\* cap of the station's distribution, and at least the floor whenever the
\* cap is not below the floor; with a cap below the floor it is the cap.
\* The duration at the kiosk is at least the floor and has no cap.
C18_WithinCap ==
    \A n \in 1..Len(sim.results) :
        LET r == sim.results[n]
            tcn == IF r.ees_status = "EES_registered"
                   THEN sim.cfg.tcn_v_reg ELSE sim.cfg.tcn_v_unreg
            within(v, cap) == IF cap >= FloorTicks
                              THEN v >= FloorTicks /\ v <= cap
                              ELSE v = cap
        IN  /\ r.used_sss => r.serv_sss >= FloorTicks
            /\ r.used_easypass => within(r.serv_easypass, sim.cfg.easypass.cap)
            /\ r.used_eu => within(r.serv_eu, sim.cfg.eu.cap)
            /\ r.used_tcn => within(r.serv_tcn, tcn.cap)

\* a run with a service at the floor at an EU counter whose cap is above
\* the floor, and a service at the cap at the Easypass gate
C18_Witness ==
    /\ sim.cfg.eu.cap > FloorTicks
    /\ \E n \in 1..Len(sim.results) :
          sim.results[n].used_eu /\ sim.results[n].serv_eu = FloorTicks
    /\ \E n \in 1..Len(sim.results) :
          /\ sim.results[n].used_easypass
          /\ sim.results[n].serv_easypass = sim.cfg.easypass.cap

\* C24: when a scheduled pool has started (its manager waits for the first
\* entry after t0), the pool's capacity is the value of the schedule entry
\* with the latest start at or before t0's time of day, the value of the
\* day's last entry when t0 is before the first entry, and the pool holds
\* exactly that many tokens
C24_InitialCapacity ==
    \A st \in {"TCN", "EU"} :
        LET sched == IF st = "TCN" THEN sim.cfg.cap_tcn_schedule
                     ELSE sim.cfg.cap_eu_schedule
            m == sim.mgr[st]
            start(i) == ParseStart(sched[i].key)
            due == {i \in 1..Len(sched) : start(i) <= sim.t0 \div TicksPerMin}
            from == IF due = {} THEN 1..Len(sched) ELSE due
            cap == sched[CHOOSE i \in from : \A j \in from : start(j) <= start(i)].cap
        IN  (Len(sched) > 0 /\ m.pc = "delay" /\ m.k = 1 /\ cap >= 0) =>
                /\ sim.current_capacity[st] = cap
                /\ PoolTokens(sim, st) = cap

\* a run that starts at 05:00, before every entry: the TCN pool waits for the
\* entry of 06:00 with the two counters of the day's last entry, one of them
\* in service
C24_Witness ==
    /\ sim.t0 < 6 * 60 * TicksPerMin
    /\ sim.cfg.cap_tcn_schedule = Sched(1, 2)
    /\ sim.mgr["TCN"].pc = "delay" /\ sim.mgr["TCN"].k = 1
    /\ sim.current_capacity["TCN"] = 2
    /\ sim.in_use["TCN"] = 1 /\ sim.store["TCN"].items = 1

=============================================================================
